---------------------------- MODULE Spec2Model ----------------------------
(***************************************************************************)
(* A model of the Tech Trend Radar core: the topic matcher (pattern        *)
(* compiler, find_best_match, validate_url, get_topics_for_run), the       *)
(* SQLite store (insert_event, insert_events_bulk) and the run coordinator *)
(* (run_once, _process_event).                                             *)
(*                                                                         *)
(* Python strings are modelled as sequences of one-character strings, so   *)
(* that lower-casing, concatenation and regular-expression search are      *)
(* computed character by character, as the code computes them.             *)
(***************************************************************************)
EXTENDS Integers, Sequences, FiniteSets, TLC

VARIABLES
    topics_data,     \* TopicMatcher.topics_data['topics']: the loaded catalog
    topic_patterns,  \* TopicMatcher.topic_patterns: the compiled pattern list
    call,            \* the last completed call: its name, arguments and return value
    rows,            \* the raw_events table, in insertion (id) order
    changes,         \* the connection's sqlite3_changes() counter, read by Cursor.rowcount
    run,             \* the frame of TrendRadarRunner.run_once
    thr              \* the frames of the threads calling insert_event on one TrendRadarDB

vars == <<topics_data, topic_patterns, call, rows, changes, run, thr>>

\* Python's None (a tuple, as every string of the model is, so that it compares with them)
None == <<"<None>">>

\* A dictionary key that is not present (dict.get falls back to its default)
Absent == <<"<absent>">>

----------------------------------------------------------------------------
(* Bounds of the model *)

\* events one collect_for_keyword call returns
MaxBatch == 2
\* events the connectors return in one run, all calls together
MaxRunEvents == 2
\* events of one insert_events_bulk call
MaxBulk == 2
\* pieces a title is concatenated from
MaxTitlePieces == 2
\* pieces a text is concatenated from
MaxTextPieces == 1
\* pieces the prefix in front of a literal is concatenated from
MaxPrefixPieces == 2
\* pieces the suffix behind a literal is concatenated from
MaxSuffixPieces == 1
\* topics of a catalog handed to the rotation selector
MaxCatalog == 4
\* largest budget (max_topics) and rotation offset handed to the selector
MaxBudget == 4
\* days of the year the selector is called on: 1..MaxDay
MaxDay == 3

----------------------------------------------------------------------------
(* Strings *)

s_rust == <<"r","u","s","t">>
s_rustlang == <<"r","u","s","t","l","a","n","g">>
s_go == <<"g","o">>
s_golang == <<"g","o","l","a","n","g">>
s_bun == <<"b","u","n">>
s_bunjs == <<"b","u","n","j","s">>
s_ray == <<"r","a","y">>
s_ray_io == <<"r","a","y",".","i","o">>
s_spark == <<"s","p","a","r","k">>
s_apache_spark == <<"a","p","a","c","h","e"," ","s","p","a","r","k">>
s_pyspark == <<"p","y","s","p","a","r","k">>
s_kafka == <<"k","a","f","k","a">>
s_apache_kafka == <<"a","p","a","c","h","e"," ","k","a","f","k","a">>
s_kafka_streams == <<"k","a","f","k","a"," ","s","t","r","e","a","m","s">>
s_docker == <<"d","o","c","k","e","r">>
s_Docker == <<"D","o","c","k","e","r">>
s_dockerfile == <<"d","o","c","k","e","r","f","i","l","e">>
s_Dockerfile == <<"D","o","c","k","e","r","f","i","l","e">>
s_ai == <<"a","i">>
s_rs == <<"r","s">>
s_None == <<"N","o","n","e">>

UpperCase == {"D", "G", "N"}

\* str.lower() of one character (the letters the model's strings use)
LowerChar(c) ==
    CASE c = "D" -> "d"
      [] c = "G" -> "g"
      [] c = "N" -> "n"
      [] OTHER -> c

\* str.lower()
Lower(s) == [i \in 1..Len(s) |-> LowerChar(s[i])]

\* The characters of the model that the class [A-Za-z0-9] holds
AsciiAlnum ==
    {"a","b","c","d","e","f","g","h","i","j","k","l","m","n","o","p","q","r",
     "s","t","u","v","w","x","y","z","D","G","N","0","1","2","9"}

RECURSIVE Concat(_)
\* "".join(parts)
Concat(parts) ==
    IF parts = <<>> THEN <<>> ELSE Head(parts) \o Concat(Tail(parts))

RECURSIVE SeqsUpTo(_, _)
\* the sequences of at most n elements of S
SeqsUpTo(S, n) ==
    IF n = 0 THEN {<<>>}
    ELSE LET shorter == SeqsUpTo(S, n - 1)
         IN  shorter \cup {Append(q, x) : q \in shorter, x \in S}

Min(a, b) == IF a < b THEN a ELSE b

----------------------------------------------------------------------------
(* core/matcher.py: the pattern compiler *)

\* TopicMatcher.ANTI_NOISE_RULES
ANTI_NOISE_RULES ==
    [t \in {s_rust, s_go, s_bun, s_ray, s_spark, s_kafka} |->
        CASE t = s_rust  -> <<s_rustlang>>
          [] t = s_go    -> <<s_golang>>
          [] t = s_bun   -> <<s_bunjs>>
          [] t = s_ray   -> <<s_ray_io>>
          [] t = s_spark -> <<s_apache_spark, s_pyspark>>
          [] t = s_kafka -> <<s_apache_kafka, s_kafka_streams>>]

\* dict.get(key, default) on a topic record
Get(d, key, default) == IF d[key] = Absent THEN default ELSE d[key]

\* One entry of topic_patterns. The compiled regex
\* (?<![A-Za-z0-9])re.escape(literal)(?![A-Za-z0-9]), IGNORECASE, is determined by
\* its literal: RegexSearch below evaluates it.
PatternInfo(literal, topic, category, exact) ==
    [pattern |-> literal, topic |-> topic, category |-> category,
     is_exact_topic |-> exact, length |-> Len(literal)]

\* TopicPatterns without the anti-noise branch: every topic compiled the normal way
TopicPatternsNoAntiNoise(topic_info) ==
    LET topic    == Lower(Get(topic_info, "topic", <<>>))
        aliases  == [i \in 1..Len(Get(topic_info, "aliases", <<>>)) |->
                        Lower(Get(topic_info, "aliases", <<>>)[i])]
        category == Get(topic_info, "category", <<>>)
    IN  <<PatternInfo(topic, topic, category, TRUE)>>
        \o [i \in 1..Len(aliases) |-> PatternInfo(aliases[i], topic, category, FALSE)]

\* TopicPatterns without the loop over the aliases
TopicPatternsNoAliases(topic_info) ==
    LET topic    == Lower(Get(topic_info, "topic", <<>>))
        category == Get(topic_info, "category", <<>>)
    IN  IF topic \in DOMAIN ANTI_NOISE_RULES
        THEN [i \in 1..Len(ANTI_NOISE_RULES[topic]) |->
                 PatternInfo(ANTI_NOISE_RULES[topic][i], topic, category, FALSE)]
        ELSE <<PatternInfo(topic, topic, category, TRUE)>>

\* The patterns one catalog entry contributes
TopicPatterns(topic_info) ==
    LET topic    == Lower(Get(topic_info, "topic", <<>>))
        aliases  == [i \in 1..Len(Get(topic_info, "aliases", <<>>)) |->
                        Lower(Get(topic_info, "aliases", <<>>)[i])]
        category == Get(topic_info, "category", <<>>)
    IN  IF topic \in DOMAIN ANTI_NOISE_RULES
        THEN [i \in 1..Len(ANTI_NOISE_RULES[topic]) |->
                 PatternInfo(ANTI_NOISE_RULES[topic][i], topic, category, FALSE)]
        ELSE <<PatternInfo(topic, topic, category, TRUE)>>
             \o [i \in 1..Len(aliases) |->
                    PatternInfo(aliases[i], topic, category, FALSE)]

RECURSIVE BuildTopicIndex(_)
\* TopicMatcher._build_topic_index
BuildTopicIndex(topics) ==
    IF topics = <<>> THEN <<>>
    ELSE TopicPatterns(Head(topics)) \o BuildTopicIndex(Tail(topics))

\* Two characters are equal under re.IGNORECASE
SameCharIgnoreCase(a, b) == LowerChar(a) = LowerChar(b)

\* RegexMatchAt without the lookahead (?![A-Za-z0-9])
RegexMatchAtNoLookahead(literal, content, i) ==
    /\ i + Len(literal) - 1 <= Len(content)
    /\ \A k \in 1..Len(literal) : SameCharIgnoreCase(content[i + k - 1], literal[k])
    /\ (i > 1 => content[i - 1] \notin AsciiAlnum)

\* The compiled regex of `literal` matches `content` at offset i (1-based start)
RegexMatchAt(literal, content, i) ==
    /\ i + Len(literal) - 1 <= Len(content)
    /\ \A k \in 1..Len(literal) : SameCharIgnoreCase(content[i + k - 1], literal[k])
    /\ (i > 1 => content[i - 1] \notin AsciiAlnum)
    /\ (i + Len(literal) <= Len(content) => content[i + Len(literal)] \notin AsciiAlnum)

\* compiled_regex.search(content) is not None
RegexSearch(literal, content) ==
    \E i \in 1..(Len(content) + 1) : RegexMatchAt(literal, content, i)

----------------------------------------------------------------------------
(* core/matcher.py: find_best_match *)

\* str(x) as an f-string formats it
Format(x) == IF x = None THEN s_None ELSE x

\* `title is None` in place of `not title`
FalsyNoneOnly(x) == x = None

\* `not title`
Falsy(x) == x = None \/ x = <<>>

\* f"{title} {text}".lower()
Content(title, text) == Lower(Format(title) \o <<" ">> \o Format(text))

\* the indices, in compile order, of the patterns that match the content
Matches(patterns, content) ==
    {i \in 1..Len(patterns) : RegexSearch(patterns[i].pattern, content)}

\* the key reduced to the length: exactness ignored
KeyLessByLengthOnly(a, b) == a.length < b.length

\* key (is_exact_topic, length) of a is less than that of b, as Python orders tuples
KeyLess(a, b) ==
    \/ (~a.is_exact_topic /\ b.is_exact_topic)
    \/ (a.is_exact_topic = b.is_exact_topic /\ a.length < b.length)

\* the last element with a maximal key in place of the first
BestMatchLast(patterns, matches) ==
    CHOOSE i \in matches :
        /\ \A j \in matches : ~KeyLess(patterns[i], patterns[j])
        /\ \A j \in matches : j > i => KeyLess(patterns[j], patterns[i])

\* max(matches, key=...): the first element with a maximal key
BestMatch(patterns, matches) ==
    CHOOSE i \in matches :
        /\ \A j \in matches : ~KeyLess(patterns[i], patterns[j])
        /\ \A j \in matches : j < i => KeyLess(patterns[j], patterns[i])

\* what a caller gets when an exception leaves the call
Raised == <<"<raised>">>

\* find_best_match without `if not matches: return None`: max() of an empty list
\* raises ValueError
FindBestMatchNoEmptyGuard(patterns, title, text) ==
    IF Falsy(title) THEN None
    ELSE LET matches == Matches(patterns, Content(title, text))
         IN  IF matches = {} THEN Raised
             ELSE LET best == patterns[BestMatch(patterns, matches)]
                  IN  <<best.topic, best.category>>

\* TopicMatcher.find_best_match
find_best_match(patterns, title, text) ==
    IF Falsy(title) THEN None
    ELSE LET matches == Matches(patterns, Content(title, text))
         IN  IF matches = {} THEN None
             ELSE LET best == patterns[BestMatch(patterns, matches)]
                  IN  <<best.topic, best.category>>


----------------------------------------------------------------------------
(* core/matcher.py: get_topics_for_run *)

\* list[:n]
Take(s, n) == SubSeq(s, 1, Min(n, Len(s)))

\* a slice that does not rotate
RotateLeftNot(s, k) == s

\* list[k:] + list[:k]
RotateLeft(s, k) == SubSeq(s, k + 1, Len(s)) \o SubSeq(s, 1, k)

\* topic.get('category', 'general')
CategoryOf(topic_info) == Get(topic_info, "category", <<"general">>)

RECURSIVE CategoryNames(_, _)
\* list(categories.keys()): the categories in order of first appearance
CategoryNames(topics, seen) ==
    IF topics = <<>> THEN seen
    ELSE LET cat == CategoryOf(Head(topics))
         IN  IF \E i \in 1..Len(seen) : seen[i] = cat
             THEN CategoryNames(Tail(topics), seen)
             ELSE CategoryNames(Tail(topics), Append(seen, cat))

\* categories[cat]: the topics of one category, in catalog order
CategoryTopics(topics, cat) == SelectSeq(topics, LAMBDA t : CategoryOf(t) = cat)

\* the loop body taking only the extra topic of the first categories, not the share
SelectedFromCategoryExtraOnly(cat_topics, i, topics_per_category, remaining, category_rotation, day_of_year) ==
    LET internal_offset    == (category_rotation + day_of_year) % Len(cat_topics)
        rotated_cat_topics == RotateLeft(cat_topics, internal_offset)
        extra              == IF i < remaining THEN 1 ELSE 0
    IN  Take(rotated_cat_topics, extra)

\* what the loop body extends selected_topics by for the i-th (0-based) rotated category
SelectedFromCategory(cat_topics, i, topics_per_category, remaining, category_rotation, day_of_year) ==
    LET internal_offset    == (category_rotation + day_of_year) % Len(cat_topics)
        rotated_cat_topics == RotateLeft(cat_topics, internal_offset)
        extra              == IF i < remaining THEN 1 ELSE 0
    IN  Take(rotated_cat_topics, topics_per_category + extra)

\* TopicMatcher.get_topics_for_run past the early return: the selection by category,
\* with datetime.now()'s day of the year as a parameter
RotatedSelection(all_topics, max_topics, category_rotation, day_of_year) ==
    LET category_names      == CategoryNames(all_topics, <<>>)
        K                   == Len(category_names)
        topics_per_category == max_topics \div K
        remaining           == max_topics % K
        start_idx           == category_rotation % K
        rotated_categories  == RotateLeft(category_names, start_idx)
        selected_topics     ==
            Concat([i \in 1..K |->
                SelectedFromCategory(
                    CategoryTopics(all_topics, rotated_categories[i]), i - 1,
                    topics_per_category, remaining, category_rotation, day_of_year)])
    IN  Take(selected_topics, max_topics)

\* get_topics_for_run without the early return of the whole catalog
GetTopicsForRunAlwaysRotates(all_topics, max_topics, category_rotation, day_of_year) ==
    IF all_topics = <<>> THEN <<>>
    ELSE RotatedSelection(all_topics, max_topics, category_rotation, day_of_year)

\* TopicMatcher.get_topics_for_run
get_topics_for_run(all_topics, max_topics, category_rotation, day_of_year) ==
    IF Len(all_topics) <= max_topics THEN all_topics
    ELSE RotatedSelection(all_topics, max_topics, category_rotation, day_of_year)

----------------------------------------------------------------------------
(* core/matcher.py: validate_url.  A URL is the sequence of the parts it is
   written with: scheme, "://", network location, path (the last three may be
   missing); the network location is written userinfo + host + port, each of
   which may be empty. *)

Netloc(userinfo, host, port) == [userinfo |-> userinfo, host |-> host, port |-> port]

\* the empty network location ''
NoNetloc == Netloc("", "", "")

u_a == <<"https", "://", Netloc("", "a.com", ""), "/x">>
u_b == <<"http", "://", Netloc("", "b.com", "")>>
u_ftp == <<"ftp", "://", Netloc("", "x", "")>>
u_text == <<"not a url">>
u_nohost == <<"http", "://">>

\* urlparse(url): the scheme, lower-cased, the network location and its host
urlparse(url) ==
    LET netloc == IF Len(url) >= 3 /\ url[2] \in {"://", "//"} THEN url[3] ELSE NoNetloc
    IN  [scheme |-> IF Len(url) >= 2 /\ url[2] = "://"
                    THEN (CASE url[1] = "HTTP" -> "http" [] url[1] = "HTTPS" -> "https"
                            [] OTHER -> url[1])
                    ELSE "",
         netloc |-> netloc,
         hostname |-> netloc.host]

\* TopicMatcher.validate_url (its result as a truth value)
validate_url(url) ==
    /\ urlparse(url).scheme \in {"http", "https"}
    /\ urlparse(url).netloc # NoNetloc

\* json.loads(s) succeeds
WellFormedJson == {"{\"a\":1}", "{}"}
json_loads_ok(s) == s \in WellFormedJson

----------------------------------------------------------------------------
(* core/db.py *)

ts_Z == <<"2025-09-03T07:30:00", "Z">>
ts_offset == <<"2025-09-03T07:30:00", "+00:00">>

\* str.endswith("Z")
EndsWithZ(ts) == Len(ts) > 0 /\ ts[Len(ts)] = "Z"

\* url.startswith("http://") or url.startswith("https://")
StartsWithHttp(url) == Len(url) >= 2 /\ url[1] \in {"http", "https"} /\ url[2] = "://"

\* TrendRadarDB._validate_event does not raise
ValidEvent(ev) ==
    /\ EndsWithZ(ev.ts)
    /\ ev.src \in {"github", "hn", "reddit", "ph"}
    /\ StartsWithHttp(ev.url)
    /\ ev.topic_guess # <<>> /\ ev.topic_guess # None
    /\ json_loads_ok(ev.metrics_json)

\* the URLs of the table's rows
RowUrls(table) == {table[i].url : i \in 1..Len(table)}

\* INSERT without the unique index idx_raw_url: every event becomes a row
SqlInsertNoUniqueIndex(table, ev) == [rows |-> Append(table, ev), changes |-> 1]

\* INSERT OR IGNORE INTO raw_events under the unique index on url: the new table
\* and the statement's change count
SqlInsertOrIgnore(table, ev) ==
    IF ev.url \in RowUrls(table)
    THEN [rows |-> table, changes |-> 0]
    ELSE [rows |-> Append(table, ev), changes |-> 1]

\* insert_event without its `except Exception`: the error reaches the caller
InsertEventUncaught(table, chg, ev, fault) ==
    IF ~ValidEvent(ev) \/ fault
    THEN [rows |-> table, changes |-> chg, ret |-> None, raised |-> TRUE]
    ELSE LET done == SqlInsertOrIgnore(table, ev)
         IN  [rows |-> done.rows, changes |-> done.changes, ret |-> done.changes > 0,
              raised |-> FALSE]

\* TrendRadarDB.insert_event run alone: the new table, the connection's change
\* counter, the returned boolean and whether the call raised.  `fault`: the
\* statement raises sqlite3.Error.  The ValueError of _validate_event and the error
\* of the statement are both caught by `except Exception` and turned into False.
insert_event(table, chg, ev, fault) ==
    IF ~ValidEvent(ev) \/ fault
    THEN [rows |-> table, changes |-> chg, ret |-> FALSE, raised |-> FALSE]
    ELSE LET done == SqlInsertOrIgnore(table, ev)
         IN  [rows |-> done.rows, changes |-> done.changes, ret |-> done.changes > 0,
              raised |-> FALSE]

RECURSIVE ExecuteMany(_, _, _, _)
\* conn.executemany(INSERT OR IGNORE ..., validated): the new table, cur.rowcount (the
\* sum of the statements' change counts) and the connection's change counter
ExecuteMany(table, chg, validated, affected) ==
    IF validated = <<>> THEN [rows |-> table, changes |-> chg, rowcount |-> affected]
    ELSE LET done == SqlInsertOrIgnore(table, Head(validated))
         IN  ExecuteMany(done.rows, done.changes, Tail(validated), affected + done.changes)

\* insert_events_bulk without the ROLLBACK: the statements run before the failure
\* (here: all of them, the COMMIT failing) stay
InsertEventsBulkNoRollback(table, chg, events, fault) ==
    LET validated == SelectSeq(events, ValidEvent)
        failed    == Len(events) - Len(validated)
        done      == ExecuteMany(table, chg, validated, 0)
    IN  IF events = <<>> \/ validated = <<>>
        THEN [rows |-> table, changes |-> chg, raised |-> FALSE,
              ret |-> [inserted |-> 0, duplicates |-> 0, failed |-> failed]]
        ELSE IF fault
        THEN [rows |-> done.rows, changes |-> done.changes, raised |-> FALSE,
              ret |-> [inserted |-> 0, duplicates |-> 0, failed |-> failed + Len(validated)]]
        ELSE [rows |-> done.rows, changes |-> done.changes, raised |-> FALSE,
              ret |-> [inserted |-> done.rowcount,
                       duplicates |-> Len(validated) - done.rowcount,
                       failed |-> failed]]

\* insert_events_bulk counting the ignored statements under 'failed'
InsertEventsBulkFailsDuplicates(table, chg, events, fault) ==
    LET validated == SelectSeq(events, ValidEvent)
        failed    == Len(events) - Len(validated)
        done      == ExecuteMany(table, chg, validated, 0)
    IN  IF events = <<>> \/ validated = <<>>
        THEN [rows |-> table, changes |-> chg, raised |-> FALSE,
              ret |-> [inserted |-> 0, duplicates |-> 0, failed |-> failed]]
        ELSE IF fault
        THEN [rows |-> table, changes |-> chg, raised |-> FALSE,
              ret |-> [inserted |-> 0, duplicates |-> 0, failed |-> failed + Len(validated)]]
        ELSE [rows |-> done.rows, changes |-> done.changes, raised |-> FALSE,
              ret |-> [inserted |-> done.rowcount,
                       duplicates |-> 0,
                       failed |-> failed + Len(validated) - done.rowcount]]

\* TrendRadarDB.insert_events_bulk.  `fault`: a statement of the transaction (BEGIN,
\* executemany or COMMIT) raises sqlite3.Error; it is caught and the transaction is
\* rolled back.
insert_events_bulk(table, chg, events, fault) ==
    LET validated == SelectSeq(events, ValidEvent)
        failed    == Len(events) - Len(validated)
        done      == ExecuteMany(table, chg, validated, 0)
    IN  IF events = <<>> \/ validated = <<>>
        THEN [rows |-> table, changes |-> chg, raised |-> FALSE,
              ret |-> [inserted |-> 0, duplicates |-> 0, failed |-> failed]]
        ELSE IF fault
        THEN [rows |-> table, changes |-> chg, raised |-> FALSE,
              ret |-> [inserted |-> 0, duplicates |-> 0, failed |-> failed + Len(validated)]]
        ELSE [rows |-> done.rows, changes |-> done.changes, raised |-> FALSE,
              ret |-> [inserted |-> done.rowcount,
                       duplicates |-> Len(validated) - done.rowcount,
                       failed |-> failed]]

----------------------------------------------------------------------------
(* core/run_once.py *)

\* int(os.getenv('MAX_TOPICS_PER_RUN', 80))
DefaultMaxTopics == 80

\* _process_event without the URL check
ProcessEventNoUrlCheck(patterns, table, chg, event, fault) ==
    LET match_result == find_best_match(patterns, event.title, event.text)
        matched      == [event EXCEPT !.topic_guess = match_result[1]]
        done         == insert_event(table, chg, matched, fault)
    IN  IF match_result = None \/ ~json_loads_ok(event.metrics_json)
        THEN [result |-> "no_match", rows |-> table, changes |-> chg, insert_called |-> FALSE]
        ELSE [result |-> IF done.ret THEN "inserted" ELSE "duplicates",
              rows |-> done.rows, changes |-> done.changes, insert_called |-> TRUE]

\* _process_event without the line event['topic_guess'] = topic
ProcessEventKeepsProvisional(patterns, table, chg, event, fault) ==
    LET match_result == find_best_match(patterns, event.title, event.text)
        done         == insert_event(table, chg, event, fault)
    IN  IF \/ match_result = None
           \/ ~validate_url(event.url)
           \/ ~json_loads_ok(event.metrics_json)
        THEN [result |-> "no_match", rows |-> table, changes |-> chg, insert_called |-> FALSE]
        ELSE [result |-> IF done.ret THEN "inserted" ELSE "duplicates",
              rows |-> done.rows, changes |-> done.changes, insert_called |-> TRUE]

\* TrendRadarRunner._process_event: the result, the table and the connection's change
\* counter after it, and whether db.insert_event was called.  `fault`: the INSERT
\* raises sqlite3.Error.
process_event(patterns, table, chg, event, fault) ==
    LET match_result == find_best_match(patterns, event.title, event.text)
        matched      == [event EXCEPT !.topic_guess = match_result[1]]
        done         == insert_event(table, chg, matched, fault)
    IN  IF \/ match_result = None
           \/ ~validate_url(event.url)
           \/ ~json_loads_ok(event.metrics_json)
        THEN [result |-> "no_match", rows |-> table, changes |-> chg, insert_called |-> FALSE]
        ELSE [result |-> IF done.ret THEN "inserted" ELSE "duplicates",
              rows |-> done.rows, changes |-> done.changes, insert_called |-> TRUE]

\* the statistics run_once starts from
ZeroCounts == [collected |-> 0, inserted |-> 0, duplicates |-> 0, no_match |-> 0]

InitialStats(topics) ==
    [topics_processed |-> Len(topics),
     sources |-> [github |-> ZeroCounts, hn |-> ZeroCounts],
     total_events |-> 0]

\* where run_once goes on after the slot of `source` for topic i: the other source of
\* the topic, the next topic, or the totals
AfterSlot(r, source) ==
    IF source = "github" THEN [r EXCEPT !.pc = "hn", !.batch = <<>>]
    ELSE IF r.i < Len(r.topics)
         THEN [r EXCEPT !.pc = "github", !.i = r.i + 1, !.batch = <<>>]
         ELSE [r EXCEPT !.pc = "totals", !.batch = <<>>]

\* a collect_for_keyword failure that no except clause catches: the run ends there
AfterCollectFailureUncaught(r, source) == [r EXCEPT !.pc = "raised", !.batch = <<>>]

\* the except clause around a source's slot: the failure is logged, the run goes on
AfterCollectFailure(r, source) == AfterSlot(r, source)

----------------------------------------------------------------------------
(* The variables a specification does not use. The specifications of the pure
   functions make one call per behaviour: a call reads nothing an earlier call
   wrote. *)

NoCall == [op |-> "none"]
NoRun == [pc |-> "off"]
NoThreads == <<>>

----------------------------------------------------------------------------
(* SpecRotate: the rotation selector called on a catalog, for every budget,
   rotation offset and day *)

\* the name of the i-th topic of a rotation catalog
TopicName(i) == <<"t", ToString(i)>>

RotationCategories == {<<"lang">>, <<"infra">>, Absent}

\* catalogs of at most MaxCatalog topics, each in one of the categories or in none
RotationCatalogs ==
    UNION {
        {[i \in 1..n |-> [topic |-> TopicName(i), aliases |-> <<>>, category |-> cats[i]]] :
            cats \in [1..n -> RotationCategories]}
        : n \in 0..MaxCatalog}

InitRotate ==
    /\ topics_data \in RotationCatalogs
    /\ topic_patterns = BuildTopicIndex(topics_data)
    /\ call = NoCall
    /\ rows = <<>>
    /\ changes = 0
    /\ run = NoRun
    /\ thr = NoThreads

GetTopicsForRunCall ==
    /\ call = NoCall
    /\ \E max_topics \in 0..MaxBudget, category_rotation \in 0..MaxBudget, day_of_year \in 1..MaxDay :
        /\ call' = [op |-> "get_topics_for_run",
                    max_topics |-> max_topics,
                    category_rotation |-> category_rotation,
                    day_of_year |-> day_of_year,
                    ret |-> get_topics_for_run(topics_data, max_topics,
                                               category_rotation, day_of_year)]
        /\ UNCHANGED <<topics_data, topic_patterns, rows, changes, run, thr>>

\* get_topics_for_run(max_topics, r) called for r = 0..K-1 on one day
RotationSweepCall ==
    /\ call = NoCall
    /\ topics_data # <<>>
    /\ \E max_topics \in 0..MaxBudget, day_of_year \in 1..MaxDay :
        /\ call' = [op |-> "rotation_sweep",
                    max_topics |-> max_topics,
                    day_of_year |-> day_of_year,
                    rets |-> [r \in 0..(Len(CategoryNames(topics_data, <<>>)) - 1) |->
                                get_topics_for_run(topics_data, max_topics, r, day_of_year)]]
        /\ UNCHANGED <<topics_data, topic_patterns, rows, changes, run, thr>>

NextRotate == GetTopicsForRunCall \/ RotationSweepCall

SpecRotate == InitRotate /\ [][NextRotate]_vars

\* C1: for a budget N below the catalog size C, get_topics_for_run returns exactly
\* min(N, C) topics, for every rotation offset and every day of the year.
C1_ResultSizeIsBudget ==
    (call.op = "get_topics_for_run" /\ call.max_topics < Len(topics_data))
        => Len(call.ret) = Min(call.max_topics, Len(topics_data))

\* C13: when the budget N is at least the catalog size C, get_topics_for_run returns
\* the full catalog, in catalog order, for every rotation offset and every day.
C13_FullCatalogWhenBudgetCovers ==
    (call.op = "get_topics_for_run" /\ call.max_topics >= Len(topics_data))
        => call.ret = topics_data

\* a catalog of two categories was returned whole under a rotation and a day that
\* would have reordered it
C13_Witness ==
    /\ call.op = "get_topics_for_run"
    /\ Len(topics_data) >= 3
    /\ call.max_topics >= Len(topics_data)
    /\ Len(CategoryNames(topics_data, <<>>)) = 2
    /\ call.category_rotation = 1
    /\ call.ret = topics_data
    /\ RotatedSelection(topics_data, call.max_topics, call.category_rotation,
                        call.day_of_year) # topics_data

\* the categories of the catalog
CatalogCategories == {CategoryOf(topics_data[i]) : i \in 1..Len(topics_data)}

\* the categories of the topics of a result
CategoriesIn(result) == {CategoryOf(result[i]) : i \in 1..Len(result)}

IsSweepInRange ==
    /\ call.op = "rotation_sweep"
    /\ Cardinality(CatalogCategories) <= call.max_topics
    /\ call.max_topics < Len(topics_data)

\* C14: for a catalog of C topics in K categories and a budget N with K <= N < C, the
\* day of the year held fixed, the union of the results of get_topics_for_run(N, r)
\* over r = 0..K-1 contains at least one topic of every category.
C14_SweepCoversEveryCategory ==
    IsSweepInRange =>
        UNION {CategoriesIn(call.rets[r]) : r \in DOMAIN call.rets} = CatalogCategories

\* a sweep over two categories with a budget of 3 below the catalog size, whose
\* results differ from one rotation to the next and cover both categories
C14_Witness ==
    /\ IsSweepInRange
    /\ Cardinality(CatalogCategories) = 2
    /\ call.max_topics = 3
    /\ call.rets[0] # call.rets[1]
    /\ UNION {CategoriesIn(call.rets[r]) : r \in DOMAIN call.rets} = CatalogCategories

\* The reference procedure of C20, by positions.  The k-th smallest element of a set
\* of positions:
KthOf(positions, k) ==
    CHOOSE i \in positions : Cardinality({j \in positions : j < i}) = k - 1

\* the positions in the catalog where a category appears for the first time
RefFirsts(catalog) ==
    {i \in 1..Len(catalog) :
        \A j \in 1..(i - 1) : CategoryOf(catalog[j]) # CategoryOf(catalog[i])}

\* the positions of the topics of the k-th group (groups in insertion order)
RefGroup(catalog, k) ==
    {i \in 1..Len(catalog) :
        CategoryOf(catalog[i]) = CategoryOf(catalog[KthOf(RefFirsts(catalog), k)])}

\* what is taken from the j-th group of the rotated order: the group order rotated
\* left by r mod K, the group's list rotated left by (r + d) mod its size, N div K
\* topics and one more for the first N mod K groups
RefTaken(catalog, N, r, d, j) ==
    LET K     == Cardinality(RefFirsts(catalog))
        group == RefGroup(catalog, ((j - 1 + (r % K)) % K) + 1)
        size  == Cardinality(group)
        want  == (N \div K) + (IF j <= N % K THEN 1 ELSE 0)
        count == IF want < size THEN want ELSE size
    IN  [t \in 1..count |-> catalog[KthOf(group, ((t - 1 + ((r + d) % size)) % size) + 1)]]

RECURSIVE RefConcat(_, _, _, _, _)
\* the concatenation of what is taken from the groups j..K of the rotated order
RefConcat(catalog, N, r, d, j) ==
    IF j > Cardinality(RefFirsts(catalog)) THEN <<>>
    ELSE RefTaken(catalog, N, r, d, j) \o RefConcat(catalog, N, r, d, j + 1)

\* the concatenation truncated to N
Reference(catalog, N, r, d) ==
    LET all == RefConcat(catalog, N, r, d, 1)
    IN  [t \in 1..(IF Len(all) < N THEN Len(all) ELSE N) |-> all[t]]

\* C20: for a catalog larger than the budget, get_topics_for_run(N, r) on day d returns
\* exactly the sequence of the reference procedure: groups by category in insertion
\* order, the group order rotated left by r mod K, each group's list rotated left by
\* (r + d) mod its size, N div K + 1 topics from each of the first N mod K rotated
\* groups and N div K from each of the rest, concatenated and truncated to N.
C20_EqualsReferenceProcedure ==
    (call.op = "get_topics_for_run" /\ call.max_topics < Len(topics_data))
        => call.ret = Reference(topics_data, call.max_topics, call.category_rotation,
                                call.day_of_year)

\* a call with budget 3 on four topics in two categories, rotation 1, whose result is
\* not the first three topics of the catalog
C20_Witness ==
    /\ call.op = "get_topics_for_run"
    /\ Len(topics_data) = 4
    /\ call.max_topics = 3
    /\ call.category_rotation = 1
    /\ Cardinality(CatalogCategories) = 2
    /\ Len(call.ret) = 3
    /\ call.ret # SubSeq(topics_data, 1, 3)
    /\ call.ret = Reference(topics_data, 3, 1, call.day_of_year)

----------------------------------------------------------------------------
(* SpecMatch: a matcher constructed on a catalog; find_best_match called on
   every title and text, and every compiled pattern searched in every text
   prefix + literal + suffix *)

topic_rust == [topic |-> s_rust, aliases |-> <<s_rs>>, category |-> <<"lang">>]
topic_go == [topic |-> s_go, aliases |-> <<s_golang>>, category |-> <<"lang">>]
topic_docker == [topic |-> s_Docker, aliases |-> <<s_Dockerfile>>, category |-> <<"infra">>]
topic_ai == [topic |-> s_ai, aliases |-> <<>>, category |-> Absent]
topic_golang == [topic |-> s_golang, aliases |-> <<>>, category |-> <<"lang">>]

MatchCatalogs ==
    {<<>>,
     <<topic_rust, topic_docker>>,
     <<topic_docker, topic_ai, topic_rust>>,
     <<topic_go, topic_rust, topic_ai, topic_docker>>,
     <<topic_golang, topic_docker>>,
     <<topic_docker, topic_golang>>}

TitlePieces == {s_ai, s_docker, s_Dockerfile, s_rust, s_rustlang, s_golang, <<" ">>, <<"s">>}

Titles == {Concat(q) : q \in SeqsUpTo(TitlePieces, MaxTitlePieces)} \cup {None}

Texts == {Concat(q) : q \in SeqsUpTo(TitlePieces, MaxTextPieces)} \cup {None}

AffixPieces == {s_golang, <<" ">>, <<"s">>, <<"2">>, <<"é">>}

Prefixes == {Concat(q) : q \in SeqsUpTo(AffixPieces, MaxPrefixPieces)}

Suffixes == {Concat(q) : q \in SeqsUpTo(AffixPieces, MaxSuffixPieces)}

\* the spellings of a compiled (lower-cased) literal that a text may hold
Spellings(literal) == {literal} \cup {s \in {s_Docker, s_Dockerfile} : Lower(s) = literal}

InitMatch ==
    /\ topics_data \in MatchCatalogs
    /\ topic_patterns = BuildTopicIndex(topics_data)
    /\ call = NoCall
    /\ rows = <<>>
    /\ changes = 0
    /\ run = NoRun
    /\ thr = NoThreads

FindBestMatchCall ==
    /\ call = NoCall
    /\ \E title \in Titles, text \in Texts :
        /\ call' = [op |-> "find_best_match", title |-> title, text |-> text,
                    ret |-> find_best_match(topic_patterns, title, text)]
        /\ UNCHANGED <<topics_data, topic_patterns, rows, changes, run, thr>>

\* pattern_info['compiled_regex'].search(prefix + L + suffix)
SearchCall ==
    /\ call = NoCall
    /\ \E i \in DOMAIN topic_patterns :
        \E L \in Spellings(topic_patterns[i].pattern), prefix \in Prefixes, suffix \in Suffixes :
            /\ call' = [op |-> "search", literal |-> L, prefix |-> prefix, suffix |-> suffix,
                        ret |-> RegexSearch(topic_patterns[i].pattern, prefix \o L \o suffix)]
            /\ UNCHANGED <<topics_data, topic_patterns, rows, changes, run, thr>>

NextMatch == FindBestMatchCall \/ SearchCall

SpecMatch == InitMatch /\ [][NextMatch]_vars

\* the patterns that matched in the last find_best_match call
CallMatches == Matches(topic_patterns, Content(call.title, call.text))

IsMatchCall == call.op = "find_best_match" /\ ~Falsy(call.title)

\* C2: when a pattern with is_exact_topic = true matched, find_best_match returns the
\* topic of such a pattern, whatever the lengths of the non-exact matches; when only
\* non-exact patterns matched, it returns the topic of one of greatest literal length.
C2_ExactThenLongest ==
    IsMatchCall =>
        LET M     == CallMatches
            exact == {i \in M : topic_patterns[i].is_exact_topic}
        IN  /\ exact # {} =>
                /\ call.ret # None
                /\ \E i \in exact : call.ret[1] = topic_patterns[i].topic
            /\ (M # {} /\ exact = {}) =>
                /\ call.ret # None
                /\ \E i \in M :
                    /\ call.ret[1] = topic_patterns[i].topic
                    /\ \A j \in M : topic_patterns[j].length <= topic_patterns[i].length

\* an exact pattern won against a longer non-exact pattern of another topic
C2_Witness ==
    /\ IsMatchCall
    /\ \E i, j \in CallMatches :
        /\ topic_patterns[i].is_exact_topic
        /\ ~topic_patterns[j].is_exact_topic
        /\ topic_patterns[j].length > topic_patterns[i].length
        /\ topic_patterns[j].topic # topic_patterns[i].topic
        /\ call.ret # None
        /\ call.ret[1] = topic_patterns[i].topic

IsSearchCall == call.op = "search"

PrefixEndsAlnum == call.prefix # <<>> /\ call.prefix[Len(call.prefix)] \in AsciiAlnum

SuffixBeginsAlnum == call.suffix # <<>> /\ call.suffix[1] \in AsciiAlnum

\* the offsets at which the literal occurs in the text, whatever surrounds it
Occurrences(literal, text) ==
    {i \in 1..Len(text) :
        /\ i + Len(literal) - 1 <= Len(text)
        /\ \A k \in 1..Len(literal) : LowerChar(text[i + k - 1]) = LowerChar(literal[k])}

\* C3 as stated: the pattern for L matches prefix + L + suffix if and only if the prefix
\* does not end in an alphanumeric character and the suffix does not begin with one.
C3_MatchIffBoundaries ==
    IsSearchCall => (call.ret <=> (~PrefixEndsAlnum /\ ~SuffixBeginsAlnum))

\* C3 as amended: the pattern for L matches prefix + L + suffix whenever the prefix does
\* not end in an ASCII letter or digit and the suffix does not begin with one; and when
\* L occurs in the text at that one place only, it matches only then.
C3_MatchIffBoundariesAtOnlyOccurrence ==
    IsSearchCall =>
        /\ (~PrefixEndsAlnum /\ ~SuffixBeginsAlnum) => call.ret
        /\ Occurrences(call.literal, call.prefix \o call.literal \o call.suffix)
                = {Len(call.prefix) + 1}
            => (call.ret => (~PrefixEndsAlnum /\ ~SuffixBeginsAlnum))

\* a literal between a space and the end of the text matched, and one followed by a
\* letter did not
C3_Witness ==
    /\ IsSearchCall
    /\ Occurrences(call.literal, call.prefix \o call.literal \o call.suffix)
            = {Len(call.prefix) + 1}
    /\ \/ (call.prefix # <<>> /\ ~PrefixEndsAlnum /\ call.suffix = <<>> /\ call.ret)
       \/ (SuffixBeginsAlnum /\ ~call.ret)

\* the canonical names of the catalog's topics that the disambiguation table lists
DisambiguatedTopics ==
    {Lower(topics_data[k].topic) : k \in DOMAIN topics_data} \cap DOMAIN ANTI_NOISE_RULES

\* the compiled patterns of one topic, in compile order
PatternsOf(topic) == SelectSeq(topic_patterns, LAMBDA p : p.topic = topic)

\* the pattern set of a disambiguated topic holds exactly one pattern per listed safe
\* literal, all non-exact: none for the bare name, none for a configured alias
C4_OnlySafeLiteralsCompiled ==
    \A t \in DisambiguatedTopics :
        /\ [i \in 1..Len(PatternsOf(t)) |-> PatternsOf(t)[i].pattern] = ANTI_NOISE_RULES[t]
        /\ \A i \in 1..Len(PatternsOf(t)) : ~PatternsOf(t)[i].is_exact_topic

\* some safe literal of the topic stands in the content as a whole token
SafeLiteralInContent(t) ==
    \E i \in 1..Len(ANTI_NOISE_RULES[t]) :
        RegexSearch(ANTI_NOISE_RULES[t][i], Content(call.title, call.text))

\* find_best_match never returns a disambiguated topic for a content that holds none of
\* its safe literals as a whole token (its bare name alone, for one)
C4_NeverOnBareName ==
    IsMatchCall =>
        \A t \in DisambiguatedTopics :
            (call.ret # None /\ call.ret[1] = t) => SafeLiteralInContent(t)

\* C4 as stated: the patterns of a disambiguated topic are its safe literals only, all
\* non-exact; find_best_match never returns the topic for a text with only its bare
\* name, and returns it for a text containing a safe literal as a whole token.
C4_SafeLiteralAlwaysWins ==
    /\ C4_OnlySafeLiteralsCompiled
    /\ C4_NeverOnBareName
    /\ IsMatchCall =>
        \A t \in DisambiguatedTopics :
            SafeLiteralInContent(t) => (call.ret # None /\ call.ret[1] = t)

\* C4 as amended: the patterns of a disambiguated topic are its safe literals only, all
\* non-exact; find_best_match never returns the topic for a text with only its bare
\* name; for a text containing a safe literal as a whole token it returns a match, and
\* returns that topic when no pattern of another topic matches the text as well.
C4_SafeLiteralWinsAlone ==
    /\ C4_OnlySafeLiteralsCompiled
    /\ C4_NeverOnBareName
    /\ IsMatchCall =>
        \A t \in DisambiguatedTopics :
            SafeLiteralInContent(t) =>
                /\ call.ret # None
                /\ (\A i \in CallMatches : topic_patterns[i].topic = t) => call.ret[1] = t

\* topic rust, with configured alias rs, was returned for its safe literal rustlang
\* in a content that holds its bare name too
C4_Witness ==
    /\ IsMatchCall
    /\ s_rust \in DisambiguatedTopics
    /\ Len(PatternsOf(s_rust)) = 1
    /\ call.title = s_rust
    /\ call.text = s_rustlang
    /\ call.ret # None
    /\ call.ret[1] = s_rust

\* C5: find_best_match returns no match whenever the title is empty or absent, for
\* every text, a text that holds topic names or aliases as whole tokens included.
C5_NoTitleNoMatch ==
    (call.op = "find_best_match" /\ (call.title = None \/ call.title = <<>>))
        => call.ret = None

\* the title was empty or absent, the text alone matched a pattern, and nothing was returned
C5_Witness ==
    /\ call.op = "find_best_match"
    /\ (call.title = None \/ call.title = <<>>)
    /\ call.text # None
    /\ Matches(topic_patterns, Lower(call.text)) # {}
    /\ call.ret = None


\* C17: find_best_match never raises: for every title and every text, including empty
\* or absent text, it returns either a (topic, category) pair of a compiled pattern or
\* no match.
C17_MatchNeverRaises ==
    call.op = "find_best_match" =>
        /\ call.ret # Raised
        /\ \/ call.ret = None
           \/ \E i \in DOMAIN topic_patterns :
                call.ret = <<topic_patterns[i].topic, topic_patterns[i].category>>

\* a call with a title and an absent text returned no match, on a catalog with patterns
C17_Witness ==
    /\ IsMatchCall
    /\ call.text = None
    /\ call.title = s_golang \o <<"s">>
    /\ topic_patterns # <<>>
    /\ call.ret = None


\* the matching patterns of the call that share the maximum (is_exact_topic, length) key
CallMaximal ==
    {i \in CallMatches : \A j \in CallMatches : ~KeyLess(topic_patterns[i], topic_patterns[j])}

\* the position in the catalog of the topic a pattern was compiled for
CatalogPosition(pattern_info) ==
    CHOOSE k \in 1..Len(topics_data) : Lower(topics_data[k].topic) = pattern_info.topic

\* C21: when several matching patterns share the maximum (is_exact_topic, length) key,
\* find_best_match returns the topic and category of the one that comes first in compile
\* order: catalog order, within a topic the bare name before its aliases.
C21_FirstMaximalWins ==
    /\ \A i, j \in DOMAIN topic_patterns :
        i < j =>
            /\ CatalogPosition(topic_patterns[i]) <= CatalogPosition(topic_patterns[j])
            /\ (topic_patterns[i].topic = topic_patterns[j].topic
                    => ~topic_patterns[j].is_exact_topic)
    /\ (IsMatchCall /\ CallMatches # {}) =>
        LET first == CHOOSE i \in CallMaximal : \A j \in CallMaximal : i <= j
        IN  call.ret = <<topic_patterns[first].topic, topic_patterns[first].category>>

\* two patterns of different topics shared the maximum key and the one compiled
\* first won
C21_Witness ==
    /\ IsMatchCall
    /\ \E i, j \in CallMaximal :
        /\ i < j
        /\ topic_patterns[i].topic # topic_patterns[j].topic
        /\ call.ret = <<topic_patterns[i].topic, topic_patterns[i].category>>


\* the catalog entries whose topic is not in the disambiguation table
PlainEntries ==
    {k \in DOMAIN topics_data : Lower(topics_data[k].topic) \notin DOMAIN ANTI_NOISE_RULES}

\* C23: for a topic not in the disambiguation table the compiler emits exactly one
\* exact pattern for the bare topic name and one non-exact pattern per configured
\* alias, so a text that contains one of the aliases as a whole token, and no other
\* pattern's literal, is matched to that topic's canonical name and category.
C23_AliasMatchesTopic ==
    /\ \A k \in PlainEntries :
        LET topic    == Lower(topics_data[k].topic)
            aliases  == topics_data[k].aliases
            compiled == PatternsOf(topic)
        IN  /\ Len(compiled) = 1 + Len(aliases)
            /\ compiled[1].pattern = topic /\ compiled[1].is_exact_topic
            /\ \A i \in 1..Len(aliases) :
                /\ compiled[i + 1].pattern = Lower(aliases[i])
                /\ ~compiled[i + 1].is_exact_topic
    /\ IsMatchCall =>
        \A k \in PlainEntries :
            \A i \in 1..Len(topics_data[k].aliases) :
                (CallMatches = {p \in DOMAIN topic_patterns :
                                    /\ topic_patterns[p].topic = Lower(topics_data[k].topic)
                                    /\ topic_patterns[p].pattern = Lower(topics_data[k].aliases[i])})
                    => \/ CallMatches = {}
                       \/ call.ret = <<Lower(topics_data[k].topic),
                                       Get(topics_data[k], "category", <<>>)>>

\* the title 'Dockerfile ', holding the literal of no other pattern as a whole token,
\* was matched to ('docker', 'infra') through the alias
C23_Witness ==
    /\ IsMatchCall
    /\ call.title = s_Dockerfile \o <<" ">>
    /\ call.text = <<>>
    /\ Cardinality(CallMatches) = 1
    /\ \A p \in CallMatches :
        topic_patterns[p].pattern = s_dockerfile /\ ~topic_patterns[p].is_exact_topic
    /\ call.ret = <<s_docker, <<"infra">>>>


\* SpecText: find_best_match of a title with an absent text and with an empty text,
\* on catalogs of which one holds the topic 'none'

s_none == <<"n","o","n","e">>

topic_none == [topic |-> s_none, aliases |-> <<>>, category |-> <<"lang">>]

TextCatalogs ==
    {<<topic_rust, topic_docker>>,
     <<topic_docker, topic_ai, topic_rust>>,
     <<topic_none, topic_docker>>}

InitText ==
    /\ topics_data \in TextCatalogs
    /\ topic_patterns = BuildTopicIndex(topics_data)
    /\ call = NoCall
    /\ rows = <<>>
    /\ changes = 0
    /\ run = NoRun
    /\ thr = NoThreads

\* find_best_match(title, None) and find_best_match(title, "") for a non-empty title
AbsentTextCall ==
    /\ call = NoCall
    /\ \E title \in Titles \ {None, <<>>} :
        /\ call' = [op |-> "absent_text", title |-> title,
                    ret_absent |-> find_best_match(topic_patterns, title, None),
                    ret_empty |-> find_best_match(topic_patterns, title, <<>>)]
        /\ UNCHANGED <<topics_data, topic_patterns, rows, changes, run, thr>>

NextText == AbsentTextCall

SpecText == InitText /\ [][NextText]_vars

\* C29: for every non-empty title and every catalog, find_best_match with an absent
\* text returns the same result as with an empty text.
C29_AbsentTextIsEmptyText ==
    call.op = "absent_text" => call.ret_absent = call.ret_empty

----------------------------------------------------------------------------
(* SpecStore: insert_event and insert_events_bulk called, one call after the
   other, on one store *)

\* a RawEvent with the fields the store validates; title and text are stored as given
Event(ts, src, url, title, topic_guess, metrics_json) ==
    [ts |-> ts, src |-> src, url |-> url, title |-> title, text |-> <<>>,
     topic_guess |-> topic_guess, metrics_json |-> metrics_json]

StoreEvents ==
    {Event(ts_Z, "github", u_a, s_docker, s_docker, "{\"a\":1}"),
     Event(ts_Z, "hn", u_a, s_rustlang, s_rust, "{}"),
     Event(ts_Z, "hn", u_b, s_docker, s_docker, "{}"),
     Event(ts_offset, "github", u_b, s_docker, s_docker, "{}"),
     Event(ts_Z, "github", u_ftp, s_docker, s_docker, "{}"),
     Event(ts_Z, "github", u_a, s_docker, s_docker, "{bad json"),
     Event(ts_Z, "twitter", u_b, s_docker, s_docker, "{}"),
     Event(ts_Z, "github", u_b, s_docker, <<>>, "{}")}

InitStore ==
    /\ topics_data = <<>>
    /\ topic_patterns = BuildTopicIndex(topics_data)
    /\ call = NoCall
    /\ rows = <<>>
    /\ changes = 0
    /\ run = NoRun
    /\ thr = NoThreads

InsertEventCall ==
    \E ev \in StoreEvents, fault \in BOOLEAN :
        LET done == insert_event(rows, changes, ev, fault)
        IN  /\ rows' = done.rows
            /\ changes' = done.changes
            /\ call' = [op |-> "insert_event", event |-> ev, fault |-> fault,
                        before |-> rows, ret |-> done.ret, raised |-> done.raised]
            /\ UNCHANGED <<topics_data, topic_patterns, run, thr>>

\* the events the batches of insert_events_bulk are made of
BulkEvents ==
    {Event(ts_Z, "github", u_a, s_docker, s_docker, "{\"a\":1}"),
     Event(ts_Z, "hn", u_a, s_rustlang, s_rust, "{}"),
     Event(ts_Z, "hn", u_b, s_docker, s_docker, "{}"),
     Event(ts_offset, "github", u_b, s_docker, s_docker, "{}")}

InsertEventsBulkCall ==
    \E events \in SeqsUpTo(BulkEvents, MaxBulk), fault \in BOOLEAN :
        LET done == insert_events_bulk(rows, changes, events, fault)
        IN  /\ rows' = done.rows
            /\ changes' = done.changes
            /\ call' = [op |-> "insert_events_bulk", events |-> events, fault |-> fault,
                        before |-> rows, ret |-> done.ret, raised |-> done.raised]
            /\ UNCHANGED <<topics_data, topic_patterns, run, thr>>

NextStore == InsertEventCall \/ InsertEventsBulkCall

SpecStore == InitStore /\ [][NextStore]_vars

\* no two rows of the table share a URL
UniqueUrls == \A i, j \in 1..Len(rows) : rows[i].url = rows[j].url => i = j

\* the call left the rows it found as they were, in place
BeforeKept == Len(call.before) <= Len(rows) /\ SubSeq(rows, 1, Len(call.before)) = call.before

\* C8 as stated: no two rows share a URL; the first insert of a URL adds a row and is
\* reported as inserted, every later insert of the same URL adds no row, changes no
\* existing row and is reported as duplicate.
C8_FirstInsertAddsRow ==
    /\ UniqueUrls
    /\ call.op = "insert_event" =>
        IF call.event.url \notin RowUrls(call.before)
        THEN rows = Append(call.before, call.event) /\ call.ret = TRUE
        ELSE rows = call.before /\ call.ret = FALSE

\* C8 as amended: no two rows share a URL; the first insert of a URL with an event that
\* passes the store's validation, the store not failing, adds a row and is reported as
\* inserted; every other insert adds no row, changes no existing row and is reported
\* as not inserted (by insert_events_bulk: as duplicate when the event is valid and the
\* transaction commits, as failed otherwise).
C8_FirstValidInsertAddsRow ==
    /\ UniqueUrls
    /\ call.op = "insert_event" =>
        IF call.event.url \notin RowUrls(call.before) /\ ValidEvent(call.event) /\ ~call.fault
        THEN rows = Append(call.before, call.event) /\ call.ret = TRUE
        ELSE rows = call.before /\ call.ret = FALSE
    /\ call.op = "insert_events_bulk" =>
        LET valid == {i \in 1..Len(call.events) : ValidEvent(call.events[i])}
        IN  /\ BeforeKept
            /\ call.ret.inserted = Len(rows) - Len(call.before)
            /\ call.ret.inserted + call.ret.duplicates + call.ret.failed = Len(call.events)
            /\ IF call.fault /\ valid # {}
               THEN rows = call.before /\ call.ret.failed = Len(call.events)
               ELSE /\ call.ret.failed = Len(call.events) - Cardinality(valid)
                    /\ RowUrls(rows) =
                         RowUrls(call.before) \cup {call.events[i].url : i \in valid}
                    /\ \A k \in (Len(call.before) + 1)..Len(rows) :
                         \E i \in valid : rows[k] = call.events[i]

\* a second, different event with a stored URL was reported as duplicate and the row
\* of the first was left as it was
C8_Witness ==
    /\ call.op = "insert_event"
    /\ ValidEvent(call.event)
    /\ ~call.fault
    /\ call.event.url \in RowUrls(call.before)
    /\ call.event \notin {call.before[i] : i \in 1..Len(call.before)}
    /\ call.ret = FALSE
    /\ rows = call.before

\* C16: insert_event never raises to its caller: for every event (valid, invalid or of
\* a stored URL) and every store error it returns a boolean, True exactly when a new
\* row was added, and when it returns False the rows of the store are unchanged.
C16_InsertNeverRaises ==
    call.op = "insert_event" =>
        /\ ~call.raised
        /\ call.ret \in BOOLEAN
        /\ call.ret = TRUE <=> Len(rows) = Len(call.before) + 1
        /\ call.ret = TRUE => rows = Append(call.before, call.event)
        /\ call.ret = FALSE => rows = call.before

\* the statement of a valid event with a new URL failed on a store that holds a row:
\* the call returned False and left the row alone
C16_Witness ==
    /\ call.op = "insert_event"
    /\ call.fault
    /\ ValidEvent(call.event)
    /\ call.before # <<>>
    /\ call.event.url \notin RowUrls(call.before)
    /\ ~call.raised
    /\ call.ret = FALSE
    /\ rows = call.before


\* the call is an insert_events_bulk whose transaction failed
IsFailedBulk ==
    /\ call.op = "insert_events_bulk"
    /\ call.fault
    /\ \E i \in 1..Len(call.events) : ValidEvent(call.events[i])

\* C24: when the transaction of insert_events_bulk fails, none of the batch's events is
\* persisted (the rows are as before the call), the call does not raise, and every
\* event of the batch is counted under 'failed', 'inserted' and 'duplicates' both zero.
C24_FailedBulkPersistsNothing ==
    IsFailedBulk =>
        /\ rows = call.before
        /\ ~call.raised
        /\ call.ret = [inserted |-> 0, duplicates |-> 0, failed |-> Len(call.events)]

\* the transaction of a batch of a valid event with a new URL and an invalid event
\* failed on a store that holds a row
C24_Witness ==
    /\ IsFailedBulk
    /\ Len(call.events) = 2
    /\ call.before # <<>>
    /\ \E i \in 1..2 :
        ValidEvent(call.events[i]) /\ call.events[i].url \notin RowUrls(call.before)
    /\ \E i \in 1..2 : ~ValidEvent(call.events[i])
    /\ rows = call.before
    /\ call.ret.failed = 2

\* the events of the batch that pass the up-front validation
ValidInBatch == {i \in 1..Len(call.events) : ValidEvent(call.events[i])}

\* C25 as stated: in the counts of insert_events_bulk only events that fail the
\* up-front validation are counted under 'failed'; an event that passes validation is
\* always counted as either inserted or duplicate.
C25_OnlyInvalidCountedFailed ==
    call.op = "insert_events_bulk" =>
        /\ call.ret.failed = Len(call.events) - Cardinality(ValidInBatch)
        /\ call.ret.inserted + call.ret.duplicates = Cardinality(ValidInBatch)

\* C25 as amended: when the transaction of insert_events_bulk does not fail, only
\* events that fail the up-front validation are counted under 'failed' and every event
\* that passes validation is counted as either inserted or duplicate.
C25_OnlyInvalidCountedFailedOnCommit ==
    (call.op = "insert_events_bulk" /\ ~IsFailedBulk) =>
        /\ call.ret.failed = Len(call.events) - Cardinality(ValidInBatch)
        /\ call.ret.inserted + call.ret.duplicates = Cardinality(ValidInBatch)

\* a committed batch of an invalid event and a valid event of a stored URL: one failed,
\* one duplicate
C25_Witness ==
    /\ call.op = "insert_events_bulk"
    /\ ~call.fault
    /\ Len(call.events) = 2
    /\ Cardinality(ValidInBatch) = 1
    /\ \A i \in ValidInBatch : call.events[i].url \in RowUrls(call.before)
    /\ call.ret = [inserted |-> 0, duplicates |-> 1, failed |-> 1]

----------------------------------------------------------------------------
(* SpecConc: two threads call insert_event on one TrendRadarDB, that is on one
   connection (check_same_thread=False), each with a valid event, both events
   with the same URL, which no row holds yet.

   An INSERT statement runs atomically (autocommit; SQLite serialises the
   statements of a connection).  Cursor.rowcount is read after the statement
   has run, from the connection's change counter (sqlite3_changes), which the
   statement another thread ran in between has overwritten. *)

Threads == {1, 2}

\* the valid events of the URL both threads insert
SameUrlEvents == {ev \in StoreEvents : ValidEvent(ev) /\ ev.url = u_a}

\* rows of other URLs the table may hold when the threads start
OtherRows == {<<>>, <<Event(ts_Z, "hn", u_b, s_docker, s_docker, "{}")>>}

InitConc ==
    /\ topics_data = <<>>
    /\ topic_patterns = BuildTopicIndex(topics_data)
    /\ call = NoCall
    /\ rows \in OtherRows
    /\ changes = 0
    /\ run = NoRun
    /\ thr \in [Threads -> {[pc |-> "validate", event |-> ev, ret |-> None, raised |-> FALSE] :
                               ev \in SameUrlEvents}]

\* self._validate_event(event_data)
ThreadValidate(t) ==
    /\ thr[t].pc = "validate"
    /\ thr' = [thr EXCEPT ![t].pc = IF ValidEvent(thr[t].event) THEN "execute" ELSE "done",
                          ![t].ret = IF ValidEvent(thr[t].event) THEN None ELSE FALSE]
    /\ UNCHANGED <<topics_data, topic_patterns, call, rows, changes, run>>

\* cur = self.conn.execute("INSERT OR IGNORE ...")
ThreadExecute(t) ==
    /\ thr[t].pc = "execute"
    /\ rows' = SqlInsertOrIgnore(rows, thr[t].event).rows
    /\ changes' = SqlInsertOrIgnore(rows, thr[t].event).changes
    /\ thr' = [thr EXCEPT ![t].pc = "rowcount"]
    /\ UNCHANGED <<topics_data, topic_patterns, call, run>>

\* return cur.rowcount > 0
ThreadRowcount(t) ==
    /\ thr[t].pc = "rowcount"
    /\ thr' = [thr EXCEPT ![t].pc = "done", ![t].ret = changes > 0]
    /\ UNCHANGED <<topics_data, topic_patterns, call, rows, changes, run>>

NextConc ==
    \E t \in Threads : ThreadValidate(t) \/ ThreadExecute(t) \/ ThreadRowcount(t)

SpecConc == InitConc /\ [][NextConc]_vars

\* C9: when two inserts of events with the same URL run concurrently, in every
\* interleaving exactly one of them is reported as inserted and the other as duplicate,
\* the store ends with exactly one row for that URL, and neither call raises.
C9_ExactlyOneWins ==
    (\A t \in Threads : thr[t].pc = "done") =>
        /\ Cardinality({t \in Threads : thr[t].ret = TRUE}) = 1
        /\ Cardinality({t \in Threads : thr[t].ret = FALSE}) = 1
        /\ Cardinality({i \in 1..Len(rows) : rows[i].url = u_a}) = 1
        /\ \A t \in Threads : ~thr[t].raised

----------------------------------------------------------------------------
(* SpecRun: one run of TrendRadarRunner.run_once on an empty store.  The
   connectors are the interface run_once is written against: a call of
   collect_for_keyword raises, or returns candidate events of any content. *)

RunCatalog == <<topic_rust, topic_docker>>

\* the candidate events a connector may return for a keyword: the keyword as
\* provisional topic, the connector's source, any timestamp, URL, title and metrics
CandidateEvents(keyword, source) ==
    {[ts |-> ts_Z, src |-> source, url |-> u_a, title |-> s_Dockerfile, text |-> <<>>,
      topic_guess |-> keyword, metrics_json |-> "{\"a\":1}"],
     [ts |-> ts_Z, src |-> source, url |-> u_a, title |-> <<"s">>, text |-> s_rustlang,
      topic_guess |-> keyword, metrics_json |-> "{}"],
     [ts |-> ts_Z, src |-> source, url |-> u_ftp, title |-> s_Dockerfile, text |-> <<>>,
      topic_guess |-> keyword, metrics_json |-> "{}"],
     [ts |-> ts_Z, src |-> source, url |-> u_b, title |-> s_Dockerfile, text |-> None,
      topic_guess |-> keyword, metrics_json |-> "{bad json"],
     [ts |-> ts_Z, src |-> source, url |-> u_b, title |-> <<"s">>, text |-> s_rust,
      topic_guess |-> keyword, metrics_json |-> "{}"],
     [ts |-> ts_offset, src |-> source, url |-> u_b, title |-> s_Dockerfile, text |-> <<>>,
      topic_guess |-> keyword, metrics_json |-> "{}"]}

InitRun ==
    /\ topics_data = RunCatalog
    /\ topic_patterns = BuildTopicIndex(topics_data)
    /\ call = NoCall
    /\ rows = <<>>
    /\ changes = 0
    /\ run = [pc |-> "start", topics |-> <<>>, i |-> 0, batch |-> <<>>,
              stats |-> InitialStats(<<>>), slots |-> <<>>, processed |-> <<>>]
    /\ thr = NoThreads

\* run_once up to the loop over the topics
RunStart ==
    /\ run.pc = "start"
    /\ \E max_topics \in {1, DefaultMaxTopics}, day_of_year \in 1..MaxDay :
        LET topics == get_topics_for_run(topics_data, max_topics, 0, day_of_year)
        IN  run' = [run EXCEPT !.pc = IF topics = <<>> THEN "totals" ELSE "github",
                               !.topics = topics,
                               !.i = 1,
                               !.stats = InitialStats(topics)]
    /\ UNCHANGED <<topics_data, topic_patterns, call, rows, changes, thr>>

\* the (topic, source) slot run_once is at
Slot(source, failed, events) ==
    [topic |-> run.topics[run.i].topic, source |-> source, failed |-> failed,
     events |-> events]

\* the events the connectors have returned so far
CollectedSoFar == run.stats.sources.github.collected + run.stats.sources.hn.collected

\* collect_for_keyword of the source's connector raises
CollectFails(source) ==
    /\ run.pc = source
    /\ run' = AfterCollectFailure(
                  [run EXCEPT !.slots = Append(@, Slot(source, TRUE, <<>>))], source)
    /\ UNCHANGED <<topics_data, topic_patterns, call, rows, changes, thr>>

\* collect_for_keyword of the source's connector returns; collected += len(events)
Collect(source) ==
    /\ run.pc = source
    /\ \E events \in SeqsUpTo(CandidateEvents(run.topics[run.i].topic, source), MaxBatch) :
        /\ CollectedSoFar + Len(events) <= MaxRunEvents
        /\ LET counted == [run EXCEPT !.stats.sources[source].collected = @ + Len(events),
                                      !.slots = Append(@, Slot(source, FALSE, events))]
           IN  run' = IF events = <<>> THEN AfterSlot(counted, source)
                      ELSE [counted EXCEPT !.pc = source \o "_events", !.batch = events]
    /\ UNCHANGED <<topics_data, topic_patterns, call, rows, changes, thr>>

\* one pass of `for event in events`: result = self._process_event(event, source);
\* stats['sources'][source][result] += 1
ProcessEventStep(source) ==
    /\ run.pc = source \o "_events"
    /\ run.batch # <<>>
    /\ \E fault \in BOOLEAN :
        LET event   == Head(run.batch)
            done    == process_event(topic_patterns, rows, changes, event, fault)
            counted == [run EXCEPT !.stats.sources[source][done.result] = @ + 1,
                                   !.processed = Append(@, [event |-> event,
                                        source |-> source, result |-> done.result,
                                        insert_called |-> done.insert_called,
                                        url_stored |-> event.url \in RowUrls(rows)]),
                                   !.batch = Tail(run.batch)]
        IN  /\ rows' = done.rows
            /\ changes' = done.changes
            /\ run' = IF Tail(run.batch) = <<>> THEN AfterSlot(counted, source) ELSE counted
    /\ UNCHANGED <<topics_data, topic_patterns, call, thr>>

\* the totals, and return stats
RunFinish ==
    /\ run.pc = "totals"
    /\ LET stats == [run.stats EXCEPT !.total_events =
                        run.stats.sources.github.inserted + run.stats.sources.hn.inserted]
       IN  /\ run' = [run EXCEPT !.pc = "done", !.stats = stats]
           /\ call' = [op |-> "run_once", ret |-> stats]
    /\ UNCHANGED <<topics_data, topic_patterns, rows, changes, thr>>

NextRun ==
    \/ RunStart
    \/ CollectFails("github")
    \/ Collect("github")
    \/ ProcessEventStep("github")
    \/ CollectFails("hn")
    \/ Collect("hn")
    \/ ProcessEventStep("hn")
    \/ RunFinish

SpecRun == InitRun /\ [][NextRun]_vars

Sources == {"github", "hn"}

\* the events processed so far, by index
Processed == run.processed

\* the event of a processed entry is one _process_event must reject
Rejectable(ev) ==
    \/ find_best_match(topic_patterns, ev.title, ev.text) = None
    \/ ~validate_url(ev.url)
    \/ ~json_loads_ok(ev.metrics_json)

\* the processed events of a source with a result
CountOf(source, result) ==
    Cardinality({k \in 1..Len(Processed) :
        Processed[k].source = source /\ Processed[k].result = result})

\* C6: a candidate event whose URL fails the URL check, whose metrics payload is not
\* well-formed JSON, or that matches no topic is never passed to the store's insert
\* and is counted as no_match for its source.
C6_RejectedNeverInserted ==
    /\ \A k \in 1..Len(Processed) :
        Rejectable(Processed[k].event) =>
            /\ ~Processed[k].insert_called
            /\ Processed[k].result = "no_match"
    /\ \A source \in Sources :
        run.stats.sources[source].no_match = CountOf(source, "no_match")
    /\ \A i \in 1..Len(rows) :
        validate_url(rows[i].url) /\ json_loads_ok(rows[i].metrics_json)

\* an event with a matching title and an ftp URL, and one with a malformed metrics
\* payload, were processed and counted as no_match
C6_Witness ==
    /\ \E k \in 1..Len(Processed) :
        /\ ~validate_url(Processed[k].event.url)
        /\ find_best_match(topic_patterns, Processed[k].event.title,
                           Processed[k].event.text) # None
        /\ Processed[k].result = "no_match"
    /\ \E k \in 1..Len(Processed) :
        /\ ~json_loads_ok(Processed[k].event.metrics_json)
        /\ Processed[k].result = "no_match"
        /\ run.stats.sources[Processed[k].source].no_match >= 1

\* C7: every event the run persists carries as its topic the topic find_best_match
\* returns for its title and text, not the provisional topic the connector set.
C7_PersistedTopicIsMatched ==
    \A i \in 1..Len(rows) :
        /\ find_best_match(topic_patterns, rows[i].title, rows[i].text) # None
        /\ rows[i].topic_guess = find_best_match(topic_patterns, rows[i].title, rows[i].text)[1]

\* an event collected for keyword rust was persisted with topic docker
C7_Witness ==
    \E k \in 1..Len(Processed), i \in 1..Len(rows) :
        /\ Processed[k].result = "inserted"
        /\ Processed[k].event.url = rows[i].url
        /\ Processed[k].event.topic_guess = s_rust
        /\ rows[i].topic_guess = s_docker

\* the slots a run over the selected topics goes through: both sources of every topic
ExpectedSlots ==
    [k \in 1..(2 * Len(run.topics)) |->
        <<run.topics[(k + 1) \div 2].topic, IF k % 2 = 1 THEN "github" ELSE "hn">>]

\* the events the connector returned in the slots of a source that did not fail
ReturnedTo(source) ==
    Concat([k \in 1..Len(run.slots) |->
        IF run.slots[k].source = source /\ ~run.slots[k].failed
        THEN run.slots[k].events ELSE <<>>])

\* C10: a failure of one connector's collect_for_keyword for one topic does not abort
\* the run: collect_for_keyword is still called for the other source of the topic and
\* for both sources of every later topic, run_once returns its statistics, and the
\* failed slot adds zero to the source's collected, inserted, duplicates and no_match.
\* At every point of the run the slots gone through are the first of the expected
\* slots, failed or not, and the slot the run is about to collect is the next one.
C10_FailureDoesNotAbort ==
    /\ run.pc \in {"start", "github", "github_events", "hn", "hn_events", "totals", "done"}
    /\ run.pc \in Sources =>
        /\ Len(run.slots) < Len(ExpectedSlots)
        /\ ExpectedSlots[Len(run.slots) + 1] = <<run.topics[run.i].topic, run.pc>>
    /\ \A k \in 1..Len(run.slots) :
        k <= Len(ExpectedSlots)
            /\ <<run.slots[k].topic, run.slots[k].source>> = ExpectedSlots[k]
    /\ run.pc = "done" =>
        /\ call.op = "run_once"
        /\ [k \in 1..Len(run.slots) |-> <<run.slots[k].topic, run.slots[k].source>>]
                = ExpectedSlots
        /\ \A source \in Sources :
            /\ run.stats.sources[source].collected = Len(ReturnedTo(source))
            /\ run.stats.sources[source].inserted + run.stats.sources[source].duplicates
                    + run.stats.sources[source].no_match
                = Len(ReturnedTo(source))

\* the GitHub connector failed for the first topic, the run went on, processed events of
\* a later slot and returned its statistics
C10_Witness ==
    /\ run.pc = "done"
    /\ Len(run.topics) = 2
    /\ run.slots[1].failed
    /\ \E k \in 2..Len(run.slots) : ~run.slots[k].failed /\ run.slots[k].events # <<>>
    /\ call.ret.total_events >= 1


\* C27: in the run statistics an event is counted under 'duplicates' only when a row
\* with its URL was in the store before the insert attempt; an event that matched,
\* passed the URL and metrics checks and whose URL was not yet stored is counted as
\* 'inserted' and is in the store afterwards.
C27_DuplicatesOnlyWhenStored ==
    \A k \in 1..Len(run.processed) :
        LET p == run.processed[k]
        IN  /\ p.result = "duplicates" => p.url_stored
            /\ (p.insert_called /\ ~p.url_stored) =>
                    (p.result = "inserted" /\ p.event.url \in RowUrls(rows))


\* SpecRunRaise: one run of run_once on an empty store with connectors that may also
\* hand over an event dictionary without a 'text' entry (the store reads the text with
\* event_data.get("text") and does not require it).

\* an event without the 'text' key
PartialEvents(keyword, source) ==
    {[ts |-> ts_Z, src |-> source, url |-> u_b, title |-> s_Dockerfile,
      topic_guess |-> keyword, metrics_json |-> "{}"]}

\* the events a connector may return here
RawEvents(keyword, source) ==
    {ev \in CandidateEvents(keyword, source) : ev.ts = ts_Z /\ ev.url = u_a}
        \cup PartialEvents(keyword, source)

\* event['title'], event['text'] raise KeyError
RaisesKeyError(event) == ~({"title", "text"} \subseteq DOMAIN event)

\* collect_for_keyword of the source's connector returns; collected += len(events)
CollectRaw(source) ==
    /\ run.pc = source
    /\ \E events \in SeqsUpTo(RawEvents(run.topics[run.i].topic, source), MaxBatch) :
        /\ CollectedSoFar + Len(events) <= MaxRunEvents
        /\ LET counted == [run EXCEPT !.stats.sources[source].collected = @ + Len(events),
                                      !.slots = Append(@, Slot(source, FALSE, events))]
           IN  run' = IF events = <<>> THEN AfterSlot(counted, source)
                      ELSE [counted EXCEPT !.pc = source \o "_events", !.batch = events]
    /\ UNCHANGED <<topics_data, topic_patterns, call, rows, changes, thr>>

\* one pass of `for event in events` in which _process_event returns
ProcessEventReturns(source) ==
    /\ run.pc = source \o "_events"
    /\ run.batch # <<>>
    /\ ~RaisesKeyError(Head(run.batch))
    /\ ProcessEventStep(source)

\* one pass of `for event in events` in which _process_event raises: the source's
\* `except Exception` ends the loop over the batch
ProcessEventRaises(source) ==
    /\ run.pc = source \o "_events"
    /\ run.batch # <<>>
    /\ RaisesKeyError(Head(run.batch))
    /\ run' = AfterCollectFailure(
                  [run EXCEPT !.processed = Append(@, [event |-> Head(run.batch),
                                   source |-> source, result |-> "raised",
                                   insert_called |-> FALSE, url_stored |-> FALSE])],
                  source)
    /\ UNCHANGED <<topics_data, topic_patterns, call, rows, changes, thr>>

NextRunRaise ==
    \/ RunStart
    \/ CollectFails("github")
    \/ CollectRaw("github")
    \/ ProcessEventReturns("github")
    \/ ProcessEventRaises("github")
    \/ CollectFails("hn")
    \/ CollectRaw("hn")
    \/ ProcessEventReturns("hn")
    \/ ProcessEventRaises("hn")
    \/ RunFinish

SpecRunRaise == InitRun /\ [][NextRunRaise]_vars

----------------------------------------------------------------------------
(* SpecCollect: one call of a connector's collect_for_keyword over the items the
   remote API returned (already fetched and filtered to the recent ones).  `run`
   holds the call: the connector, the keyword, the items still to convert, the
   events collected so far and, for Hacker News, the URLs seen. *)

MaxItems == 2
MaxMicro == 1

\* the readings of datetime.now(timezone.utc): a second and its microseconds
Clock == {[sec |-> "2025-09-03T07:30:00", micro |-> m] : m \in 0..MaxMicro}

\* datetime.isoformat() of an aware UTC datetime: the offset is written "+00:00",
\* and the microseconds only when they are not zero
isoformat(dt) ==
    <<dt.sec>> \o (IF dt.micro = 0 THEN <<>> ELSE <<".", ToString(dt.micro)>>) \o <<"+00:00">>

\* json.dumps of the metrics dictionary a connector extracts
json_dumps_metrics == "{\"a\":1}"

\* keyword_lower in title
Contains(text, literal) ==
    \E i \in 1..(Len(text) - Len(literal) + 1) :
        SubSeq(text, i, i + Len(literal) - 1) = literal

\* the repositories / stories a remote API may return
RemoteItems ==
    {[url |-> u_a, title |-> s_Dockerfile, text |-> <<>>],
     [url |-> u_b, title |-> s_rustlang, text |-> s_docker],
     [url |-> u_ftp, title |-> s_docker, text |-> <<>>],
     [url |-> u_a, title |-> s_rust, text |-> <<>>]}

InitCollect ==
    /\ topics_data = <<>>
    /\ topic_patterns = BuildTopicIndex(topics_data)
    /\ call = NoCall
    /\ rows = <<>>
    /\ changes = 0
    /\ thr = NoThreads
    /\ \E source \in {"github", "hn"}, keyword \in {s_rust, s_docker},
          items \in SeqsUpTo(RemoteItems, MaxItems) :
        run = [pc |-> "items", source |-> source, keyword |-> keyword, items |-> items,
               events |-> <<>>, seen_urls |-> {}]

\* the event a connector builds for an item at the clock reading `now`
CollectedEvent(source, keyword, item, now) ==
    [ts |-> isoformat(now), src |-> source, url |-> item.url, title |-> item.title,
     text |-> item.text, topic_guess |-> keyword, metrics_json |-> json_dumps_metrics]

\* GitHubCollector.collect_for_keyword, one pass of `for repo in recent_repos`
GithubCollectItem ==
    /\ run.pc = "items" /\ run.source = "github" /\ run.items # <<>>
    /\ \E now \in Clock :
        LET repo == Head(run.items)
        IN  run' = IF ~validate_url(repo.url)
                   THEN [run EXCEPT !.items = Tail(@)]
                   ELSE [run EXCEPT !.items = Tail(@),
                             !.events = Append(@, CollectedEvent("github", run.keyword, repo, now))]
    /\ UNCHANGED <<topics_data, topic_patterns, call, rows, changes, thr>>

\* HackerNewsCollector.collect_for_keyword, one story: the keyword filter on the title,
\* then one pass of `for story in matching_stories`
HNCollectItem ==
    /\ run.pc = "items" /\ run.source = "hn" /\ run.items # <<>>
    /\ \E now \in Clock :
        LET story == Head(run.items)
        IN  run' = IF \/ ~Contains(Lower(story.title), Lower(run.keyword))
                      \/ story.url \in run.seen_urls
                      \/ ~validate_url(story.url)
                   THEN [run EXCEPT !.items = Tail(@)]
                   ELSE [run EXCEPT !.items = Tail(@),
                             !.events = Append(@, CollectedEvent("hn", run.keyword, story, now)),
                             !.seen_urls = @ \cup {story.url}]
    /\ UNCHANGED <<topics_data, topic_patterns, call, rows, changes, thr>>

\* return collected_events
CollectReturn ==
    /\ run.pc = "items" /\ run.items = <<>>
    /\ run' = [run EXCEPT !.pc = "returned"]
    /\ call' = [op |-> "collect_for_keyword", source |-> run.source, ret |-> run.events]
    /\ UNCHANGED <<topics_data, topic_patterns, rows, changes, thr>>

NextCollect == GithubCollectItem \/ HNCollectItem \/ CollectReturn

SpecCollect == InitCollect /\ [][NextCollect]_vars

\* C11: every candidate event returned by a connector's collect_for_keyword has a
\* timestamp that is a UTC ISO-8601 string ending in 'Z', the form the store's
\* validation accepts.
C11_TimestampEndsInZ ==
    call.op = "collect_for_keyword" =>
        \A k \in 1..Len(call.ret) : EndsWithZ(call.ret[k].ts)

----------------------------------------------------------------------------
(* SpecLoad: TopicMatcher(topics_file) over catalog files of every shape, then
   find_best_match on the matcher when the constructor returned.  A JSON value
   that is not a topic record carries a `kind`; a topic record is the record of
   its keys. *)

MaxFileTopics == 2

JsonNumber == [kind |-> "number"]
JsonNull == [kind |-> "null"]
JsonString(chars) == [kind |-> "string", chars |-> chars]
JsonList(items) == [kind |-> "list", items |-> items]
\* a JSON object that is not a topic record: whether it has the key 'topics', and
\* the value under it
JsonObject(has_topics, topics) == [kind |-> "object", has_topics |-> has_topics, topics |-> topics]

\* isinstance(v, dict) for an element of a topics list
IsTopicRecord(v) == "kind" \notin DOMAIN v

\* the elements a list in a catalog file may hold
FileElements == {topic_rust, topic_docker, JsonNumber, JsonString(<<"a">>)}

FileLists == {JsonList(items) : items \in SeqsUpTo(FileElements, MaxFileTopics)}

\* the values a catalog file may hold under 'topics'
TopicsValues ==
    FileLists \cup {JsonNumber, JsonNull, JsonString(<<>>), JsonString(<<"a", "b">>),
                    JsonObject(FALSE, JsonNull), JsonObject(TRUE, JsonNull)}

\* the catalog sources: no file, a file that is not JSON, a file holding a JSON value
CatalogFiles ==
    {[kind |-> "missing"], [kind |-> "malformed"]}
        \cup FileLists
        \cup {JsonNumber, JsonNull, JsonString(<<"s">>), JsonObject(FALSE, JsonNull)}
        \cup {JsonObject(TRUE, v) : v \in TopicsValues}

\* len(v) raises TypeError
LenRaises(v) == v.kind \in {"number", "null"}

\* TopicMatcher._load_topics: whether it raises, and the value kept under 'topics'
load_topics(file) ==
    IF file.kind \in {"missing", "malformed"}
    THEN [raised |-> FALSE, topics |-> JsonList(<<>>)]
    ELSE IF file.kind = "list"
    THEN [raised |-> FALSE, topics |-> file]
    ELSE IF file.kind = "object" /\ file.has_topics
    THEN IF LenRaises(file.topics)
         THEN [raised |-> TRUE, topics |-> JsonNull]
         ELSE [raised |-> FALSE, topics |-> file.topics]
    ELSE [raised |-> FALSE, topics |-> JsonList(<<>>)]

\* what `for topic_info in topics` goes through: the items of a list, the characters
\* of a string, the keys of an object (under 'topics', the object without the key
\* 'topics' is the empty object)
Iterated(v) ==
    IF v.kind = "list" THEN v.items
    ELSE IF v.kind = "string" THEN [i \in 1..Len(v.chars) |-> JsonString(<<v.chars[i]>>)]
    ELSE IF v.has_topics THEN <<JsonString(<<"t", "o", "p", "i", "c", "s">>)>> ELSE <<>>

\* TopicMatcher.__init__: whether it raises and, when it does not, topics_data and
\* topic_patterns.  topic_info.get raises AttributeError on a value that is not a dict.
TopicMatcherInit(file) ==
    LET loaded == load_topics(file)
        topics == Iterated(loaded.topics)
    IN  IF loaded.raised \/ \E i \in 1..Len(topics) : ~IsTopicRecord(topics[i])
        THEN [raised |-> TRUE, topics_data |-> <<>>, topic_patterns |-> <<>>]
        ELSE [raised |-> FALSE, topics_data |-> topics,
              topic_patterns |-> BuildTopicIndex(topics)]

InitLoad ==
    /\ topics_data = <<>>
    /\ topic_patterns = <<>>
    /\ call = NoCall
    /\ rows = <<>>
    /\ changes = 0
    /\ thr = NoThreads
    /\ \E file \in CatalogFiles : run = [pc |-> "new", file |-> file]

\* matcher = TopicMatcher(topics_file)
Construct ==
    /\ run.pc = "new"
    /\ LET made == TopicMatcherInit(run.file)
       IN  /\ run' = [run EXCEPT !.pc = IF made.raised THEN "raised" ELSE "ready"]
           /\ topics_data' = made.topics_data
           /\ topic_patterns' = made.topic_patterns
           /\ call' = [op |-> "TopicMatcher", raised |-> made.raised]
    /\ UNCHANGED <<rows, changes, thr>>

\* matcher.find_best_match(title, text) on the constructed matcher
MatchOnLoaded ==
    /\ run.pc = "ready"
    /\ \E title \in {s_docker, s_rustlang, s_Dockerfile, <<>>}, text \in {<<>>, s_rustlang} :
        /\ call' = [op |-> "find_best_match", title |-> title, text |-> text,
                    ret |-> find_best_match(topic_patterns, title, text)]
        /\ run' = [run EXCEPT !.pc = "used"]
    /\ UNCHANGED <<topics_data, topic_patterns, rows, changes, thr>>

NextLoad == Construct \/ MatchOnLoaded

SpecLoad == InitLoad /\ [][NextLoad]_vars

\* the file holds a list of topic records, or an object whose 'topics' is such a list
IsCatalog(file) ==
    LET IsRecordList(v) == v.kind = "list" /\ \A i \in 1..Len(v.items) : IsTopicRecord(v.items[i])
    IN  \/ IsRecordList(file)
        \/ file.kind = "object" /\ file.has_topics /\ IsRecordList(file.topics)

\* C12: constructing the matcher never fails: for a catalog source that is missing, is
\* not well-formed JSON, or is JSON of any shape other than a list of topic records or
\* an object whose 'topics' holds such a list, the loader yields an empty catalog and
\* the matcher is usable and matches nothing.
C12_ConstructionNeverFails ==
    /\ run.pc # "raised"
    /\ (run.pc \in {"ready", "used"} /\ ~IsCatalog(run.file)) =>
        /\ topic_patterns = <<>>
        /\ call.op = "find_best_match" => call.ret = None

----------------------------------------------------------------------------
(* SpecSchedule: successive scheduled runs of the run coordinator, each a new
   TrendRadarRunner calling run_once, with a fixed budget smaller than the
   catalog.  Of a run only the selection of its topics is kept: `run` holds the
   budget, the day of the year, the rotation counter each run handed to the
   selector and the topics selected so far. *)

MaxRuns == 3

\* the category_rotation run_once hands to get_topics_for_run: the call at line 59
\* passes max_topics only, so the parameter takes its default
RotationHanded(runs_so_far) == 0

InitSchedule ==
    /\ topics_data \in RotationCatalogs
    /\ topic_patterns = BuildTopicIndex(topics_data)
    /\ call = NoCall
    /\ rows = <<>>
    /\ changes = 0
    /\ thr = NoThreads
    /\ \E max_topics \in 1..MaxBudget, day \in 1..MaxDay :
        /\ max_topics < Len(topics_data)
        /\ run = [pc |-> "scheduled", max_topics |-> max_topics, day |-> day,
                  rotations |-> <<>>, selected |-> {}]

\* topics = self.matcher.get_topics_for_run(self.max_topics) of one more run
ScheduledRun ==
    /\ run.pc = "scheduled"
    /\ Len(run.rotations) < MaxRuns
    /\ LET category_rotation == RotationHanded(Len(run.rotations))
           topics == get_topics_for_run(topics_data, run.max_topics, category_rotation, run.day)
       IN  /\ run' = [run EXCEPT !.rotations = Append(@, category_rotation),
                                 !.selected = @ \cup {topics[i] : i \in 1..Len(topics)}]
           /\ call' = [op |-> "scheduled_run", category_rotation |-> category_rotation,
                       ret |-> topics]
    /\ UNCHANGED <<topics_data, topic_patterns, rows, changes, thr>>

\* the calendar moves on to the next day between two runs
NextDay ==
    /\ run.pc = "scheduled"
    /\ run.rotations # <<>>
    /\ Len(run.rotations) < MaxRuns
    /\ run.day < MaxDay
    /\ run' = [run EXCEPT !.day = @ + 1]
    /\ UNCHANGED <<topics_data, topic_patterns, call, rows, changes, thr>>

NextSchedule == ScheduledRun \/ NextDay

SpecSchedule == InitSchedule /\ [][NextSchedule]_vars

\* C15: across successive scheduled runs with a fixed budget smaller than the catalog,
\* the rotation counter handed to the selector advances from run to run, and every
\* topic of the catalog is selected in some run (here: within as many runs as the
\* catalog has topics).
C15_RotationAdvancesAcrossRuns ==
    /\ \A k \in 1..(Len(run.rotations) - 1) : run.rotations[k + 1] > run.rotations[k]
    /\ Len(run.rotations) >= Len(topics_data) =>
        run.selected = {topics_data[i] : i \in 1..Len(topics_data)}

----------------------------------------------------------------------------
(* SpecUrl: validate_url called on URLs of every make *)

UrlSchemes == {"http", "https", "HTTP", "ftp", "mailto"}

UrlNetlocs ==
    {NoNetloc, Netloc("", "a.com", ""), Netloc("", "a.com", ":80"), Netloc("", "", ":80"),
     Netloc("user@", "", ""), Netloc("user@", "a.com", "")}

UrlPaths == {<<>>, <<"/x">>}

\* absolute URLs scheme://netloc/path, URLs without "://" and scheme-less //netloc URLs
Urls ==
    {<<scheme, "://", netloc>> \o path :
        scheme \in UrlSchemes, netloc \in UrlNetlocs, path \in UrlPaths}
    \cup {u_text, u_nohost, <<"a.com/x">>}
    \cup {<<"", "//", netloc>> : netloc \in UrlNetlocs}

InitUrl ==
    /\ topics_data = <<>>
    /\ topic_patterns = <<>>
    /\ call = NoCall
    /\ rows = <<>>
    /\ changes = 0
    /\ thr = NoThreads
    /\ \E url \in Urls : run = [pc |-> "url", url |-> url]

ValidateUrlCall ==
    /\ run.pc = "url"
    /\ call' = [op |-> "validate_url", url |-> run.url, ret |-> validate_url(run.url)]
    /\ run' = [run EXCEPT !.pc = "validated"]
    /\ UNCHANGED <<topics_data, topic_patterns, rows, changes, thr>>

NextUrl == ValidateUrlCall

SpecUrl == InitUrl /\ [][NextUrl]_vars

\* C18: validate_url accepts a URL if and only if it parses as an absolute URL whose
\* scheme is exactly 'http' or 'https' and whose host component is non-empty.
C18_AcceptsIffHttpAndHost ==
    call.op = "validate_url" =>
        (call.ret <=> /\ urlparse(call.url).scheme \in {"http", "https"}
                      /\ urlparse(call.url).hostname # "")

----------------------------------------------------------------------------
(* SpecCache: one CacheManager with the default TTL, its directory empty at
   first, under calls of set_cached_data, get_cached_data, is_cached and
   clear_expired while the clock advances.  Time is counted in hours.  `run`
   holds the clock and the files of the directory by fingerprint; `call` the
   last call, the clock reading it saw and the files it found. *)

MaxClock == 5

\* ttl_hours of CacheManager.__init__
ttl_hours == 3

s_Rust == <<"R", "u", "s", "t">>

\* the (src, keyword, page) keys the cache is called with
CacheKeys ==
    {[src |-> "github", keyword |-> s_rust, page |-> 1],
     [src |-> "github", keyword |-> s_Rust, page |-> 1],
     [src |-> "hn", keyword |-> s_rust, page |-> 1]}

\* the JSON payloads cached
CachePayloads == {<<"items", "1">>, <<"items", "2">>}

\* _generate_fingerprint: the digest of f"{src}:{keyword}:{page}".lower(), one digest
\* per lower-cased text
Fingerprint(key) == <<key.src, ":", Lower(key.keyword), ":", key.page>>

Fingerprints == {Fingerprint(key) : key \in CacheKeys}

\* no file of that name in the directory
NoFile == [exists |-> FALSE]

\* datetime.now(timezone.utc).isoformat() at the hour `now`
CachedAtText(now) == <<now, "+00:00">>

\* _parse_cached_time: "Z" replaced by "+00:00", then fromisoformat; the current time
\* when the text does not parse
parse_cached_time(cached_at, now) ==
    IF Len(cached_at) = 2 /\ cached_at[2] \in {"Z", "+00:00"} THEN cached_at[1] ELSE now

\* the entry is fresh up to twice the TTL
ExpiredAfterTwiceTtl(now, cached_time) == now - cached_time > 2 * ttl_hours

\* datetime.now(timezone.utc) - cached_time > timedelta(seconds=self.ttl_seconds)
Expired(now, cached_time) == now - cached_time > ttl_hours

\* the cache_entry set_cached_data writes, as json.load reads it back
CacheEntry(key, data, now) ==
    [exists |-> TRUE, cached_at |-> CachedAtText(now), src |-> key.src,
     keyword |-> key.keyword, page |-> key.page, data |-> data]

\* the file of an entry is expired at the hour `now`
FileExpired(file, now) == file.exists /\ Expired(now, parse_cached_time(file.cached_at, now))

InitCache ==
    /\ topics_data = <<>>
    /\ topic_patterns = <<>>
    /\ call = NoCall
    /\ rows = <<>>
    /\ changes = 0
    /\ thr = NoThreads
    /\ run = [pc |-> "cache", now |-> 0, files |-> [f \in Fingerprints |-> NoFile]]

\* an hour passes
ClockTick ==
    /\ run.pc = "cache"
    /\ run.now < MaxClock
    /\ run' = [run EXCEPT !.now = @ + 1]
    /\ UNCHANGED <<topics_data, topic_patterns, call, rows, changes, thr>>

SetCachedDataCall ==
    /\ run.pc = "cache"
    /\ \E key \in CacheKeys, data \in CachePayloads :
        /\ run' = [run EXCEPT !.files[Fingerprint(key)] = CacheEntry(key, data, run.now)]
        /\ call' = [op |-> "set_cached_data", key |-> key, now |-> run.now,
                    before |-> run.files]
    /\ UNCHANGED <<topics_data, topic_patterns, rows, changes, thr>>

GetCachedDataCall ==
    /\ run.pc = "cache"
    /\ \E key \in CacheKeys :
        LET file == run.files[Fingerprint(key)]
        IN  /\ run' = IF FileExpired(file, run.now)
                      THEN [run EXCEPT !.files[Fingerprint(key)] = NoFile]
                      ELSE run
            /\ call' = [op |-> "get_cached_data", key |-> key, now |-> run.now,
                        before |-> run.files,
                        ret |-> IF ~file.exists \/ FileExpired(file, run.now)
                                THEN None ELSE file.data]
    /\ UNCHANGED <<topics_data, topic_patterns, rows, changes, thr>>

IsCachedCall ==
    /\ run.pc = "cache"
    /\ \E key \in CacheKeys :
        LET file == run.files[Fingerprint(key)]
        IN  call' = [op |-> "is_cached", key |-> key, now |-> run.now,
                     before |-> run.files,
                     ret |-> file.exists /\ ~FileExpired(file, run.now)]
    /\ UNCHANGED <<topics_data, topic_patterns, rows, changes, run, thr>>

ClearExpiredCall ==
    /\ run.pc = "cache"
    /\ LET expired == {f \in Fingerprints : FileExpired(run.files[f], run.now)}
       IN  /\ run' = [run EXCEPT !.files =
                         [f \in Fingerprints |-> IF f \in expired THEN NoFile ELSE run.files[f]]]
           /\ call' = [op |-> "clear_expired", now |-> run.now, before |-> run.files,
                       ret |-> Cardinality(expired)]
    /\ UNCHANGED <<topics_data, topic_patterns, rows, changes, thr>>

NextCache ==
    \/ ClockTick
    \/ SetCachedDataCall
    \/ GetCachedDataCall
    \/ IsCachedCall
    \/ ClearExpiredCall

SpecCache == InitCache /\ [][NextCache]_vars

\* the hours between the timestamp embedded in an entry and the call
AgeAtCall(file) == call.now - file.cached_at[1]

\* the entry the call found under its key
FoundByCall == call.before[Fingerprint(call.key)]

\* the call left every entry younger than the TTL as it was
YoungerLeftInPlace ==
    \A f \in Fingerprints :
        (call.before[f].exists /\ AgeAtCall(call.before[f]) < ttl_hours)
            => run.files[f] = call.before[f]

\* C19: a cache entry whose embedded timestamp is older than the TTL is treated as
\* absent: get_cached_data returns nothing for it and removes it, is_cached returns
\* false for it, and after clear_expired no such entry remains; every entry younger
\* than the TTL is left in place and still returned by get_cached_data with the data
\* that was stored.
C19_ExpiredEntriesAreAbsent ==
    /\ call.op = "get_cached_data" =>
        /\ (FoundByCall.exists /\ AgeAtCall(FoundByCall) > ttl_hours) =>
                call.ret = None /\ ~run.files[Fingerprint(call.key)].exists
        /\ (FoundByCall.exists /\ AgeAtCall(FoundByCall) < ttl_hours) =>
                call.ret = FoundByCall.data
        /\ YoungerLeftInPlace
    /\ call.op = "is_cached" =>
        /\ (FoundByCall.exists /\ AgeAtCall(FoundByCall) > ttl_hours) => call.ret = FALSE
        /\ YoungerLeftInPlace
    /\ call.op = "clear_expired" =>
        /\ \A f \in Fingerprints :
            run.files[f].exists => call.now - run.files[f].cached_at[1] <= ttl_hours
        /\ YoungerLeftInPlace

\* clear_expired found an entry older than the TTL and a younger one, removed the
\* first and kept the second
C19_Witness ==
    /\ call.op = "clear_expired"
    /\ call.ret = 1
    /\ \E f, g \in Fingerprints :
        /\ call.before[f].exists /\ AgeAtCall(call.before[f]) > ttl_hours
        /\ ~run.files[f].exists
        /\ call.before[g].exists /\ AgeAtCall(call.before[g]) < ttl_hours
        /\ run.files[g] = call.before[g]

----------------------------------------------------------------------------
(* SpecDays: get_topics_for_run called with the same budget and rotation offset
   on two consecutive calendar days, the first days of a year and the step from
   the last day of a year to day 1 of the next included. *)

\* tm_yday of 31 December in a common year and in a leap year
YearDays == 365
LeapYearDays == 366

\* tm_yday of the day after `day`, in a year of `year_days` days
NextDayOfYear(day, year_days) == IF day = year_days THEN 1 ELSE day + 1

\* the days a call is made on, with the length of their year
CalendarDays ==
    {[day |-> d, year_days |-> y] : d \in 1..MaxDay, y \in {YearDays, LeapYearDays}}
        \cup {[day |-> YearDays, year_days |-> YearDays],
              [day |-> LeapYearDays, year_days |-> LeapYearDays]}

InitDays ==
    /\ topics_data \in RotationCatalogs
    /\ topic_patterns = BuildTopicIndex(topics_data)
    /\ call = NoCall
    /\ rows = <<>>
    /\ changes = 0
    /\ run = NoRun
    /\ thr = NoThreads

ConsecutiveDaysCall ==
    /\ call = NoCall
    /\ \E max_topics \in 0..MaxBudget, category_rotation \in 0..MaxBudget, today \in CalendarDays :
        LET tomorrow == NextDayOfYear(today.day, today.year_days)
        IN  call' = [op |-> "consecutive_days",
                     max_topics |-> max_topics,
                     category_rotation |-> category_rotation,
                     day_of_year |-> today.day,
                     next_day_of_year |-> tomorrow,
                     ret |-> get_topics_for_run(topics_data, max_topics,
                                                category_rotation, today.day),
                     next_ret |-> get_topics_for_run(topics_data, max_topics,
                                                     category_rotation, tomorrow)]
    /\ UNCHANGED <<topics_data, topic_patterns, rows, changes, run, thr>>

NextDays == ConsecutiveDaysCall

SpecDays == InitDays /\ [][NextDays]_vars

\* the topics of a category in a result
SelectedOf(result, cat) == SelectSeq(result, LAMBDA t : CategoryOf(t) = cat)

\* C22: with rotation_offset held fixed, for a category holding more topics than its
\* per-run share (here: a share of at least one topic) the topics selected from it on
\* two consecutive days differ, for every pair of consecutive days, the step from the
\* last day of a year to day 1 of the next included.
C22_SelectionChangesDaily ==
    (call.op = "consecutive_days" /\ call.max_topics < Len(topics_data)) =>
        \A cat \in {CategoryOf(topics_data[i]) : i \in 1..Len(topics_data)} :
            (/\ Len(SelectedOf(call.ret, cat)) >= 1
             /\ Len(SelectedOf(call.ret, cat)) < Len(CategoryTopics(topics_data, cat)))
                => SelectedOf(call.ret, cat) # SelectedOf(call.next_ret, cat)


-----------------------------------------------------------------------------
(* ingest/collect_github.py, ingest/collect_hn.py: the network calls of               *)
(* collect_for_keyword against a remote that may answer late or never                 *)

\* max_pages of the GitHub connector, max_stories of the Hacker News connector
MaxPages == 2

\* the timeout argument of the Hacker News connector's session.get calls
hn_timeout == 10

\* the timeout a connector hands to session.get: the empty set when it hands none
\* (requests then waits for the remote without limit)
RequestTimeout(connector) == IF connector = "hn" THEN {hn_timeout} ELSE {}

\* the story types collect_for_keyword of the Hacker News connector walks
story_types == <<"top", "new">>

\* what a request can end with: the remote's answers, and requests' Timeout
Answers(at) ==
    CASE at = "rate_limit"    -> {[status |-> st, n |-> 0] : st \in {"ok", "exhausted", "error"}}
      [] at = "search"        -> {[status |-> st, n |-> 0] : st \in {"full_page", "last_page", "error"}}
      [] at = "story_ids"     -> {[status |-> "ids", n |-> n] : n \in 0..MaxItems}
                                 \cup {[status |-> "error", n |-> 0]}
      [] at = "story_details" -> {[status |-> st, n |-> 0] : st \in {"match", "other", "error"}}

TimedOut == [status |-> "timeout", n |-> 0]

\* session.get(...): the request is on the wire and the connector blocks on it
Send(r, at) == [r EXCEPT !.pc = "waiting", !.at = at, !.elapsed = 0]

Return(r) == [r EXCEPT !.pc = "returned", !.at = "none", !.elapsed = 0]

\* GitHubCollector.collect_for_keyword after the answer to its pending request:
\* _check_rate_limit, then _search_repositories, page by page
GithubAfter(r, answer) ==
    IF r.at = "rate_limit"
    THEN IF answer.status = "ok" THEN Send(r, "search") ELSE Return(r)
    ELSE IF answer.status = "full_page" /\ r.page < r.max
         THEN Send([r EXCEPT !.page = r.page + 1], "rate_limit")
         ELSE Return(r)

\* the Hacker News connector at the end of a story type
HnNextType(r) ==
    IF r.collected >= r.max \/ r.page = Len(story_types)
    THEN Return(r)
    ELSE Send([r EXCEPT !.page = r.page + 1, !.ids = 0], "story_ids")

\* HackerNewsCollector.collect_for_keyword after the answer to its pending request:
\* _get_story_ids, then _get_story_details of every id, for each story type
HnAfter(r, answer) ==
    IF r.at = "story_ids"
    THEN IF answer.status = "ids" /\ answer.n > 0
         THEN Send([r EXCEPT !.ids = answer.n], "story_details")
         ELSE HnNextType(r)
    ELSE LET got  == IF answer.status = "match" /\ r.collected < r.max
                     THEN r.collected + 1 ELSE r.collected
             next == [r EXCEPT !.ids = r.ids - 1, !.collected = got]
         IN  IF next.ids > 0 THEN Send(next, "story_details") ELSE HnNextType(next)

AfterResponse(r, answer) ==
    IF r.connector = "github" THEN GithubAfter(r, answer) ELSE HnAfter(r, answer)

InitNet ==
    /\ topics_data = <<>>
    /\ topic_patterns = <<>>
    /\ call = NoCall
    /\ rows = <<>>
    /\ changes = 0
    /\ thr = NoThreads
    /\ run = [pc |-> "idle", connector |-> "none", at |-> "none", page |-> 0, ids |-> 0,
              elapsed |-> 0, max |-> 0, collected |-> 0]

\* collect_for_keyword(keyword, max_pages) / collect_for_keyword(keyword, max_stories)
\* up to its first request
CollectForKeywordCall ==
    /\ run.pc = "idle"
    /\ \E connector \in {"github", "hn"}, max \in 1..MaxPages :
        run' = Send([run EXCEPT !.connector = connector, !.max = max, !.page = 1],
                    IF connector = "github" THEN "rate_limit" ELSE "story_ids")
    /\ UNCHANGED <<topics_data, topic_patterns, call, rows, changes, thr>>

\* a second of the request's timeout passes while the connector blocks on it (a
\* request without timeout keeps no time)
WaitTick ==
    /\ run.pc = "waiting"
    /\ \E t \in RequestTimeout(run.connector) : run.elapsed < t
    /\ run' = [run EXCEPT !.elapsed = run.elapsed + 1]
    /\ UNCHANGED <<topics_data, topic_patterns, call, rows, changes, thr>>

\* the request's timeout runs out: requests raises Timeout, a RequestException
TimeoutExpires ==
    /\ run.pc = "waiting"
    /\ \E t \in RequestTimeout(run.connector) : run.elapsed >= t
    /\ run' = AfterResponse(run, TimedOut)
    /\ UNCHANGED <<topics_data, topic_patterns, call, rows, changes, thr>>

\* the remote answers the pending request before any timeout
RemoteAnswers ==
    /\ run.pc = "waiting"
    /\ \A t \in RequestTimeout(run.connector) : run.elapsed < t
    /\ \E answer \in Answers(run.at) : run' = AfterResponse(run, answer)
    /\ UNCHANGED <<topics_data, topic_patterns, call, rows, changes, thr>>

NextNet ==
    \/ CollectForKeywordCall
    \/ WaitTick
    \/ TimeoutExpires
    \/ RemoteAnswers

\* the connector and the clock keep running; the remote owes no answer
SpecNet ==
    /\ InitNet
    /\ [][NextNet]_vars
    /\ WF_vars(CollectForKeywordCall)
    /\ WF_vars(WaitTick)
    /\ WF_vars(TimeoutExpires)

\* C26: every network call a source connector makes carries a bounded timeout, so
\* collect_for_keyword of each connector eventually returns, even when a remote
\* endpoint never answers.
C26_CollectEventuallyReturns == <>(run.pc = "returned")


-----------------------------------------------------------------------------
(* ingest/collect_reddit.py: the listing fetches of collect_for_keyword against a     *)
(* remote whose answers are free                                                      *)

\* the depth of nested calls the interpreter allows (sys.getrecursionlimit, scaled)
MaxDepth == 3

subreddits == <<"programming", "devops", "dataengineering", "machinelearning",
                "javascript", "rust">>

sorts == <<"new", "hot">>

\* the number of _get_subreddit_posts calls of one collect_for_keyword
Fetches == Len(subreddits) * Len(sorts)

\* what requests.post(auth_url, ..., timeout=10) and requests.get(url, ..., timeout=10)
\* can end with
TokenAnswers == {"200", "other", "timeout"}

ListingAnswers == {"200", "401", "other", "timeout"}

\* collect_for_keyword after _get_subreddit_posts returned a list: the next
\* (subreddit, sort), or the end
AfterFetch(r) ==
    IF r.k < Fetches
    THEN [r EXCEPT !.pc = "loop", !.k = r.k + 1, !.depth = 0, !.refused = FALSE]
    ELSE [r EXCEPT !.pc = "done", !.depth = 0, !.refused = FALSE, !.outcome = "returned"]

\* an exception that is no RequestException leaves every nested _get_subreddit_posts
\* and collect_for_keyword
Propagate(r, exception) == [r EXCEPT !.pc = "done", !.outcome = exception]

\* _is_token_valid: a token is held and has not expired
IsTokenValid(r, expired) == r.access_token /\ ~expired

\* _get_headers, _get_access_token
GetHeaders(r, expired, answer) ==
    IF IsTokenValid(r, expired) THEN [r EXCEPT !.pc = "get"]
    ELSE IF answer = "200" THEN [r EXCEPT !.pc = "get", !.access_token = TRUE]
    ELSE Propagate([r EXCEPT !.access_token = FALSE, !.refused = FALSE], "Exception")

\* a call of _get_subreddit_posts one level deeper
Recurse(r) ==
    IF r.depth >= MaxDepth THEN Propagate(r, "RecursionError")
    ELSE [r EXCEPT !.pc = "headers", !.depth = r.depth + 1]

\* _get_subreddit_posts after the answer to requests.get
AfterListing(r, answer) ==
    IF answer = "401"
    THEN Recurse([r EXCEPT !.access_token = FALSE, !.refused = TRUE])
    ELSE AfterFetch(r)

InitReddit ==
    /\ topics_data = <<>>
    /\ topic_patterns = <<>>
    /\ call = NoCall
    /\ rows = <<>>
    /\ changes = 0
    /\ thr = NoThreads
    /\ run = [pc |-> "loop", k |-> 1, depth |-> 0, access_token |-> FALSE,
              refused |-> FALSE, outcome |-> "none"]

\* posts = self._get_subreddit_posts(subreddit, sort, limit=50)
GetSubredditPostsCall ==
    /\ run.pc = "loop"
    /\ run' = [run EXCEPT !.pc = "headers", !.depth = 1]
    /\ UNCHANGED <<topics_data, topic_patterns, call, rows, changes, thr>>

\* headers=self._get_headers()
GetHeadersStep ==
    /\ run.pc = "headers"
    /\ \E expired \in BOOLEAN, answer \in TokenAnswers :
        run' = GetHeaders(run, expired, answer)
    /\ UNCHANGED <<topics_data, topic_patterns, call, rows, changes, thr>>

\* response = requests.get(url, ...) and the branches on its status
ListingStep ==
    /\ run.pc = "get"
    /\ \E answer \in ListingAnswers : run' = AfterListing(run, answer)
    /\ UNCHANGED <<topics_data, topic_patterns, call, rows, changes, thr>>

NextReddit ==
    \/ GetSubredditPostsCall
    \/ GetHeadersStep
    \/ ListingStep

SpecReddit == InitReddit /\ [][NextReddit]_vars

\* C30: when the service answers 401 to every listing request of a fetch, also after
\* each (successful) token refresh, _get_subreddit_posts makes a bounded number of
\* retries and returns, to a collect_for_keyword that returns.
C30_RefusedFetchReturns ==
    (run.pc = "done" /\ run.refused) => run.outcome = "returned"

============================================================================
